---- MODULE Spec2Model ----
(***************************************************************************)
(* A model of the generalized quality constituent engine of HSP2           *)
(* (src/src/hsp2/hsp2/GQUAL.py): gqual, _gqual_, advqal, ddecay, adecay    *)
(* and adsdes.  Floating point numbers are modelled as exact rationals     *)
(* [n |-> numerator, d |-> denominator > 0] in lowest terms.               *)
(***************************************************************************)
EXTENDS Integers, Sequences, FiniteSets, TLC

VARIABLES
    fpc,        \* position of a single operator call: "in", "out" or "idle"
    fname,      \* the operator applied: "advqal", "ddecay", ...
    fin,        \* the arguments of the call
    fout        \* the values the call returned

VARIABLES
    inp,        \* what gqual is called with: siminfo, uci and the input series
    pc,         \* position in gqual / _gqual_
    index,      \* the constituent being simulated
    loop,       \* the step of the time loop, 1 .. simlen
    ui,         \* the parameter dictionary handed to _gqual_
    ts,         \* the time series dictionary, inputs and outputs
    errs,       \* errors, the error vector of the running _gqual_ call
    gqerrors,   \* the error vector gqual holds and returns
    loc,        \* the locals of _gqual_ that live across steps
    w,          \* the locals of the step under way
    save,       \* the SAVE table of uci
    gq          \* what gqual keeps across constituents beside ui and ts

fvars == <<fpc, fname, fin, fout>>

rvars == <<inp, pc, index, loop, ui, ts, errs, gqerrors, loc, w, save, gq>>

vars == <<fpc, fname, fin, fout, inp, pc, index, loop, ui, ts, errs, gqerrors, loc, w, save, gq>>

(***************************************************************************)
(* Rational arithmetic                                                     *)
(***************************************************************************)
Abs(x) == IF x < 0 THEN -x ELSE x

\* Euclid's algorithm on naturals
Euclid[a \in Nat, b \in Nat] ==
    IF b = 0 THEN a
    ELSE IF a % b = 0 THEN b
    ELSE IF b % (a % b) = 0 THEN a % b
    ELSE Euclid[b % (a % b), (a % b) % (b % (a % b))]

GCD(a, b) == Euclid[a, b]

\* the rational n/d in lowest terms with a positive denominator (d # 0)
Q(n, d) ==
    LET s == IF d < 0 THEN -1 ELSE 1
        g == GCD(Abs(n), Abs(d))
    IN  [n |-> (s * n) \div g, d |-> (s * d) \div g]

R(i) == [n |-> i, d |-> 1]

Zero == R(0)
One == R(1)

RNeg(a) == [n |-> -a.n, d |-> a.d]

RAdd(a, b) ==
    IF a.n = 0 THEN b
    ELSE IF b.n = 0 THEN a
    ELSE LET g == GCD(a.d, b.d)
         IN  Q(a.n * (b.d \div g) + b.n * (a.d \div g), (a.d \div g) * b.d)

RSub(a, b) == RAdd(a, [n |-> -b.n, d |-> b.d])

RMul(a, b) ==
    IF a.n = 0 \/ b.n = 0 THEN Zero
    ELSE LET g1 == GCD(Abs(a.n), b.d)
             g2 == GCD(Abs(b.n), a.d)
         IN  Q((a.n \div g1) * (b.n \div g2), (a.d \div g2) * (b.d \div g1))

\* a / b for b # 0; a float division by zero raises ZeroDivisionError, and
\* each place where the code can meet one handles it before dividing
RDiv(a, b) ==
    IF b.n # 0 THEN RMul(a, Q(b.d, b.n)) ELSE CHOOSE x \in {} : TRUE

\* the denominators are positive
RLt(a, b) == a.n * b.d < b.n * a.d
RLe(a, b) == a.n * b.d <= b.n * a.d
RGt(a, b) == b.n * a.d < a.n * b.d
RGe(a, b) == b.n * a.d <= a.n * b.d
RAbs(a) == [n |-> Abs(a.n), d |-> a.d]

\* the function f with its values worked out, where TLC would keep the
\* constructor [x \in S |-> e] unevaluated until it is applied
Table(f) == f @@ <<>>

\* the sum of f[i] for i in lo .. hi, added pairwise by halves
RSum(f, lo, hi) ==
    LET part[a \in Int, b \in Int] ==
            IF a > b THEN Zero
            ELSE IF a = b THEN f[a]
            ELSE RAdd(part[a, (a + b) \div 2], part[(a + b) \div 2 + 1, b])
    IN  part[lo, hi]

\* base ** e for an integer exponent e (a rational with denominator 1)
RPowNat(base, e) ==
    LET pw[i \in Nat] ==
            IF i = 0 THEN One
            ELSE IF i % 2 = 0 THEN RMul(pw[i \div 2], pw[i \div 2])
            ELSE RMul(RMul(pw[i \div 2], pw[i \div 2]), base)
    IN  pw[e]

RPow(base, e) ==
    IF base = One THEN One
    ELSE IF e.n >= 0 THEN RPowNat(base, e.n) ELSE RDiv(One, RPowNat(base, -e.n))

\* exp(-x) by the rational 1/(1+x) for x >= 0 and 1-x for x < 0: 1 at 0,
\* positive and strictly decreasing like the exponential it stands for
ExpNeg(x) == IF x.n >= 0 THEN RDiv(One, RAdd(One, x)) ELSE RSub(One, x)

\* x > 1.0e-25 and x > 1.0e-30: every positive rational of the model (its
\* denominator is below 2^31) is above both noise floors
AboveFloor(x) == x.n > 0

(***************************************************************************)
(* The error vector: one slot per entry of ERRMSGS                         *)
(***************************************************************************)
MaxExits == 2

ErrLen == 12

Slots == 0 .. (ErrLen - 1)

NoErrors == [s \in Slots |-> 0]

Bump(errors, s) == [errors EXCEPT ![s] = @ + 1]

\* the value the code stores for an undefined concentration
Undefined == R(-1000000)

(***************************************************************************)
(* advqal: advection, deposition and scour of the constituent attached to  *)
(* one sediment size fraction                                              *)
(***************************************************************************)
\* ScourBed with the sign of the scoured mass lost (the pre-2007 behaviour the
\* source comment records)
ScourBedUnsigned(bsed, depscr, rbqals) ==
    IF RLe(bsed, Zero)
    THEN [bqal |-> Undefined, dsqal |-> rbqals]
    ELSE LET bqal == RDiv(rbqals, RSub(bsed, depscr))
         IN  [bqal |-> bqal, dsqal |-> RMul(bqal, depscr)]

\* the bed branch of the scour case
ScourBed(bsed, depscr, rbqals) ==
    IF RLe(bsed, Zero)
    THEN [bqal |-> Undefined, dsqal |-> RMul(R(-1), rbqals)]
    ELSE LET bqal == RDiv(rbqals, RSub(bsed, depscr))
         IN  [bqal |-> bqal, dsqal |-> RMul(bqal, depscr)]

\* DepositSusp testing only the inflow, not the resident mass
DepositSuspInflowOnly(isqal, rsed, depscr, rosed, rsqals, errors) ==
    LET denom == RAdd(RAdd(rsed, depscr), rosed)
    IN  IF RLe(denom, Zero)
        THEN [sqal |-> Undefined, rosqal |-> Zero, dsqal |-> Zero,
              errors |-> IF RGt(RAbs(isqal), Zero)
                         THEN Bump(errors, 4) ELSE errors]
        ELSE LET sq == RDiv(RAdd(isqal, rsqals), denom)
             IN  [sqal |-> IF RLe(rsed, Zero) THEN Undefined ELSE sq,
                  rosqal |-> RMul(rosed, sq),
                  dsqal |-> RMul(depscr, sq),
                  errors |-> errors]

\* the suspended branch of the deposition case; errors[4] counts a zero
\* denominator met with nonzero masses
DepositSusp(isqal, rsed, depscr, rosed, rsqals, errors) ==
    LET denom == RAdd(RAdd(rsed, depscr), rosed)
    IN  IF RLe(denom, Zero)
        THEN [sqal |-> Undefined, rosqal |-> Zero, dsqal |-> Zero,
              errors |-> IF RGt(RAbs(isqal), Zero) \/ RGt(RAbs(rsqals), Zero)
                         THEN Bump(errors, 4) ELSE errors]
        ELSE LET sq == RDiv(RAdd(isqal, rsqals), denom)
             IN  [sqal |-> IF RLe(rsed, Zero) THEN Undefined ELSE sq,
                  rosqal |-> RMul(rosed, sq),
                  dsqal |-> RMul(depscr, sq),
                  errors |-> errors]

\* the bed branch of the deposition case; the code tests abs(rbqals > 0.0),
\* the absolute value of a comparison, so a negative rbqals does not count
DepositBed(bsed, dsqal, rbqals, errors) ==
    IF RLe(bsed, Zero)
    THEN [bqal |-> Undefined,
          errors |-> IF RGt(RAbs(dsqal), Zero) \/ RGt(rbqals, Zero)
                     THEN Bump(errors, 5) ELSE errors]
    ELSE [bqal |-> RDiv(RAdd(dsqal, rbqals), bsed), errors |-> errors]

\* ExitSplit with the outflow shared evenly among the exits
ExitSplitEven(rosqal, rosed, osed, nexits) ==
    [i \in 1 .. nexits |->
        IF nexits > 1 /\ RGt(rosed, Zero)
        THEN RDiv(rosqal, R(nexits))
        ELSE Zero]

\* the outflow of sorbed material through each exit
ExitSplit(rosqal, rosed, osed, nexits) ==
    [i \in 1 .. nexits |->
        IF nexits > 1 /\ RGt(rosed, Zero)
        THEN RDiv(RMul(rosqal, osed[i]), rosed)
        ELSE Zero]

advqal(isqal, rsed, bsed, depscr, rosed, osed, nexits, rsqals, rbqals, errors) ==
    IF RLt(depscr, Zero)
    THEN LET b == ScourBed(bsed, depscr, rbqals)
             sq == IF RGt(RAdd(rsed, rosed), Zero)
                   THEN RDiv(RSub(RAdd(isqal, rsqals), b.dsqal), RAdd(rsed, rosed))
                   ELSE Zero
             rosqal == RMul(rosed, sq)
         IN  [errors |-> errors, sqal |-> sq, bqal |-> b.bqal, dsqal |-> b.dsqal,
              rosqal |-> rosqal, osqal |-> ExitSplit(rosqal, rosed, osed, nexits)]
    ELSE LET s == DepositSusp(isqal, rsed, depscr, rosed, rsqals, errors)
             b == DepositBed(bsed, s.dsqal, rbqals, s.errors)
         IN  [errors |-> b.errors, sqal |-> s.sqal, bqal |-> b.bqal,
              dsqal |-> s.dsqal, rosqal |-> s.rosqal,
              osqal |-> ExitSplit(s.rosqal, rosed, osed, nexits)]

(***************************************************************************)
(* ddecay: decay of the dissolved constituent by the six processes         *)
(***************************************************************************)
NBands == 18

Bands == 1 .. NBands

\* Diurnal with the daylight rate left as it is
DiurnalUndoubled(k3, hr, delt60) ==
    IF RLt(delt60, R(24))
    THEN (IF 17 > hr /\ hr >= 5 THEN k3 ELSE Zero)
    ELSE k3

\* the photolysis rate of an interval shorter than a day: twice the rate in
\* a daylight hour, none in the others
Diurnal(k3, hr, delt60) ==
    IF RLt(delt60, R(24))
    THEN (IF 17 > hr /\ hr >= 5 THEN RMul(R(2), k3) ELSE Zero)
    ELSE k3

\* the pseudo first-order rate of each process, per interval
DecayRates(qalfg, tw20, ka, kb, kn, thhyd, phval, kox, thox, roc, fact2, fact1, photpm, korea, cfgas, biocon, thbio, bio, fstdec, thfst, hr, delt60) ==
    LET khyd == RAdd(RAdd(RMul(ka, RPow(R(10), RNeg(phval))),
                          RMul(kb, RPow(R(10), RSub(phval, R(14))))), kn)
        k1 == IF qalfg[1] = 1 THEN RMul(khyd, RPow(thhyd, tw20)) ELSE Zero
        k2 == IF qalfg[2] = 1 THEN RMul(RMul(kox, roc), RPow(thox, tw20)) ELSE Zero
        fact3 == RSum([l \in Bands |-> RMul(fact2[l], photpm[l])], 1, NBands)
        k3a == IF qalfg[3] = 1
               THEN RMul(RMul(RMul(fact1, photpm[19]), fact3), RPow(photpm[20], tw20))
               ELSE Zero
        k3 == Diurnal(k3a, hr, delt60)
        k4 == IF qalfg[4] = 1 THEN RMul(korea, cfgas) ELSE Zero
        k5 == IF qalfg[5] = 1 THEN RMul(RMul(biocon, bio), RPow(thbio, tw20)) ELSE Zero
        k6 == IF qalfg[6] = 1 THEN RMul(fstdec, RPow(thfst, tw20)) ELSE Zero
    IN  <<k1, k2, k3, k4, k5, k6>>

\* the total rate with the last process left out of the sum
TotalRateShort(k) == RSum(k, 1, 5)

\* the total decay rate k7
TotalRate(k) == RSum(k, 1, 6)

\* Prorate with the loss shared evenly among the six processes
ProrateEven(k, dqal, volsp) ==
    LET k7 == TotalRate(k)
        total == RMul(RMul(dqal, RSub(One, ExpNeg(k7))), volsp)
    IN  Table([i \in 0 .. 7 |->
                  IF i = 0 THEN Zero
                  ELSE IF i = 7 THEN total
                  ELSE RDiv(total, R(6))])

\* the total loss, and its linear proration among the processes
Prorate(k, dqal, volsp) ==
    LET k7 == TotalRate(k)
        total == RMul(RMul(dqal, RSub(One, ExpNeg(k7))), volsp)
    IN  IF k7.n > 0
        THEN Table([i \in 0 .. 7 |->
                      IF i = 0 THEN Zero
                      ELSE IF i = 7 THEN total
                      ELSE RMul(RDiv(k[i], k7), total)])
        ELSE Table([i \in 0 .. 7 |-> IF i = 7 THEN total ELSE Zero])

ddecay(qalfg, tw20, ka, kb, kn, thhyd, phval, kox, thox, roc, fact2, fact1, photpm, korea, cfgas, biocon, thbio, bio, fstdec, thfst, volsp, dqal, hr, delt60) ==
    IF AboveFloor(dqal)
    THEN Prorate(DecayRates(qalfg, tw20, ka, kb, kn, thhyd, phval, kox, thox,
                            roc, fact2, fact1, photpm, korea, cfgas, biocon,
                            thbio, bio, fstdec, thfst, hr, delt60),
                 dqal, volsp)
    ELSE [i \in 0 .. 7 |-> Zero]

(***************************************************************************)
(* Calls of one operator on arguments drawn from bounded sets              *)
(***************************************************************************)
\* no run of gqual is under way while a single operator is applied
RunIdle ==
    /\ inp = <<>> /\ pc = "idle" /\ index = 0 /\ loop = 0 /\ ui = <<>>
    /\ ts = <<>> /\ errs = <<>> /\ gqerrors = <<>> /\ loc = <<>> /\ w = <<>>
    /\ save = <<>> /\ gq = <<>>


\* the counters a run may already hold when advqal is called
ErrorsBefore == {NoErrors, [s \in Slots |-> IF s \in {4, 5} THEN 1 ELSE 0]}

AdvqalArgs ==
    [isqal : {R(0), R(1)}, rsed : {R(0), R(2)}, bsed : {R(0), R(3)},
     depscr : {R(-5), R(0), R(1)}, rosed : {R(0), R(1)},
     rsqals : {R(0), R(2)}, rbqals : {R(-1), R(0), R(10)},
     errors : ErrorsBefore]

InitAdvqal ==
    /\ fpc = "in"
    /\ fname = "advqal"
    /\ \E a \in AdvqalArgs, nexits \in 1 .. MaxExits :
          \E osed \in [1 .. nexits -> {R(0), Q(1, 2), R(1)}] :
             fin = [a |-> a, nexits |-> nexits, osed |-> osed]
    /\ fout = <<>>
    /\ RunIdle

CallAdvqal ==
    /\ fpc = "in"
    /\ fname = "advqal"
    /\ fout' = advqal(fin.a.isqal, fin.a.rsed, fin.a.bsed, fin.a.depscr,
                      fin.a.rosed, fin.osed, fin.nexits, fin.a.rsqals,
                      fin.a.rbqals, fin.a.errors)
    /\ fpc' = "out"
    /\ UNCHANGED <<fname, fin>>
    /\ UNCHANGED rvars

SpecAdvqal == InitAdvqal /\ [][CallAdvqal]_vars

\* rate constants of the six processes, already converted to the interval
DecayParms ==
    { [ka |-> R(10000000), kb |-> R(0), kn |-> Q(1, 2), thhyd |-> Q(3, 2),
       phval |-> R(7), kox |-> R(1), thox |-> R(1), roc |-> Q(1, 2),
       fact2 |-> Q(1, 2), fact1 |-> Q(1, 24), photpm |-> Q(1, 3), phi |-> R(1),
       thphot |-> R(1), korea |-> Q(1, 2), cfgas |-> R(1), biocon |-> Q(1, 4),
       thbio |-> R(1), bio |-> R(2), fstdec |-> R(1), thfst |-> R(2)],
      [ka |-> R(0), kb |-> R(10000000), kn |-> R(1), thhyd |-> R(1),
       phval |-> R(7), kox |-> R(2), thox |-> R(2), roc |-> R(1),
       fact2 |-> R(1), fact1 |-> R(1), photpm |-> Q(1, 9), phi |-> Q(1, 2),
       thphot |-> R(2), korea |-> R(3), cfgas |-> Q(1, 3), biocon |-> R(1),
       thbio |-> Q(3, 2), bio |-> R(1), fstdec |-> Q(1, 2), thfst |-> R(1)] }

\* photpm[1..18] per band, photpm[19] the quantum yield, photpm[20] the
\* temperature correction
PhotVector(p) ==
    [i \in 0 .. 20 |->
        IF i = 0 THEN Zero ELSE IF i = 19 THEN p.phi
        ELSE IF i = 20 THEN p.thphot ELSE p.photpm]

\* every process on or off, and one or all of the flags at 2
FlagVectors ==
    [1 .. 6 -> {0, 1}]
    \cup {[i \in 1 .. 6 |-> IF i = k THEN 2 ELSE 1] : k \in 1 .. 6}
    \cup {[i \in 1 .. 6 |-> 2]}

QalfgOf(f, f7) == [i \in 0 .. 7 |-> IF i = 0 THEN 0 ELSE IF i = 7 THEN f7 ELSE f[i]]

InitDdecay ==
    /\ fpc = "in"
    /\ fname = "ddecay"
    /\ \E f \in FlagVectors, p \in DecayParms, tw20 \in {R(0), R(1)},
          dqal \in {R(0), R(2), Undefined}, volsp \in {R(3)}, hr \in {4, 5, 16, 17},
          delt60 \in {R(1), R(24), R(48)} :
          fin = [qalfg |-> QalfgOf(f, 0), p |-> p, tw20 |-> tw20, dqal |-> dqal,
                 volsp |-> volsp, hr |-> hr, delt60 |-> delt60]
    /\ fout = <<>>
    /\ RunIdle

CallDdecay ==
    /\ fpc = "in"
    /\ fname = "ddecay"
    /\ fout' = LET p == fin.p
               IN  ddecay(fin.qalfg, fin.tw20, p.ka, p.kb, p.kn, p.thhyd, p.phval,
                          p.kox, p.thox, p.roc, [l \in 0 .. NBands |-> p.fact2],
                          p.fact1, PhotVector(p), p.korea, p.cfgas, p.biocon,
                          p.thbio, p.bio, p.fstdec, p.thfst, fin.volsp, fin.dqal,
                          fin.hr, fin.delt60)
    /\ fpc' = "out"
    /\ UNCHANGED <<fname, fin>>
    /\ UNCHANGED rvars

SpecDdecay == InitDdecay /\ [][CallDdecay]_vars

(***************************************************************************)
(* The run: gqual and _gqual_                                              *)
(***************************************************************************)
MaxSteps == 2

MaxGqual == 3

\* dictionaries are functions on strings
Has(d, k) == k \in DOMAIN d

Merge(d, e) == e @@ d

Put(d, k, v) == Merge(d, k :> v)

Del(d, k) == [x \in DOMAIN d \ {k} |-> d[x]]

\* the keys prefix1 .. prefixn bound to f[1] .. f[n]
Numbered(prefix, f, n) ==
    [k \in {prefix \o ToString(i) : i \in 1 .. n} |->
        f[CHOOSE i \in 1 .. n : k = prefix \o ToString(i)]]

\* int() of a float
Trunc(x) == IF x.n >= 0 THEN x.n \div x.d ELSE -((-x.n) \div x.d)

\* series are functions on the steps 0 .. simlen-1
Steps(simlen) == 0 .. (simlen - 1)

zeros(simlen) == [t \in Steps(simlen) |-> Zero]

full(simlen, v) == [t \in Steps(simlen) |-> v]

Scaled(series, f) == [t \in DOMAIN series |-> RMul(series[t], f)]

AFACT(uunits) == IF uunits = 2 THEN R(1000000) ELSE R(43560)

\* the flattened parameter tables of the operation
make_numba_dict(uci) == uci.PARAMETERS

\* the value of a monthly table at a step of the run
dailyval(siminfo, table) == full(siminfo.steps, table[siminfo.month])

initm(siminfo, uci, flag, monthly, default) ==
    IF flag # 0 /\ Has(uci.MONTHLY, monthly)
    THEN dailyval(siminfo, uci.MONTHLY[monthly])
    ELSE full(siminfo.steps, default)

SeasonOfMonth == <<4, 4, 1, 1, 1, 2, 2, 2, 3, 3, 3, 4>>

dayval(siminfo, table) == [t \in Steps(siminfo.steps) |-> R(table[siminfo.month])]

\* the hour of day of each step
hour24Flag(siminfo) ==
    [t \in Steps(siminfo.steps) |-> R((siminfo.hour + (t * siminfo.delt) \div 60) % 24)]

\* the gq-gendata flags as gqual reads them
GenFlag(d, key) == IF Has(d, "NGQUAL") THEN Trunc(d[key]) ELSE 2

Name(i) == "GQUAL" \o ToString(i)

\* gqual, up to the loop over the constituents
GqualEnter ==
    /\ pc = "gqual"
    /\ LET siminfo == inp.siminfo
           ad == inp.uci.advectData
           delt60 == Q(siminfo.delt, 60)
           svol == RMul(ad.vol, AFACT(siminfo.units))
           ui0 == Merge(make_numba_dict(inp.uci),
                        [simlen |-> R(siminfo.steps), uunits |-> R(siminfo.units),
                         svol |-> svol, vol |-> ad.vol, delt60 |-> delt60,
                         delts |-> R(siminfo.delt * 60), errlen |-> R(ErrLen)])
           ngqual == IF Has(ui0, "NGQUAL") THEN Trunc(ui0["NGQUAL"]) ELSE 1
           ts0 == Merge(inp.ts, [VOL |-> ad.VOL, SROVOL |-> ad.SROVOL, EROVOL |-> ad.EROVOL])
           ts1 == Merge(Merge(ts0, Numbered("SOVOL", ad.SOVOL, ad.nexits)),
                        Numbered("EOVOL", ad.EOVOL, ad.nexits))
       IN  /\ ui' = Put(ui0, "ngqual", R(ngqual))
           /\ ts' = Put(ts1, "HRFG", hour24Flag(siminfo))
           /\ index' = 1
           /\ pc' = IF ngqual >= 1 THEN "constituent" ELSE "done"
    /\ gqerrors' = NoErrors
    /\ UNCHANGED <<inp, loop, errs, loc, w, save, gq, fvars>>

\* the series a gq-gendata flag of 2 or 3 makes from the gq-values entry
ValueSeries(siminfo, uci, ts0, flag, parms, key, default, monthly, tskey) ==
    LET v == IF flag = 2 /\ Has(parms, key) THEN parms[key] ELSE default
    IN  IF flag = 2 \/ flag = 3
        THEN Put(ts0, tskey, initm(siminfo, uci, flag, monthly, v))
        ELSE ts0

\* the rows of an EXTENDEDS table copied under lower-case keys
Extended(uci, table, prefix, n) ==
    IF Has(uci, table) THEN Numbered(prefix, uci[table], n) ELSE <<>>

\* a deposition series as its flag names it: from a monthly table, from ts
\* (ok is false where ts has no such series), or left as it was
DepositionInput(siminfo, uci, r, flag, name, monthly, tskey) ==
    IF ~r.ok THEN r
    ELSE IF flag > 0
    THEN [r EXCEPT !.ts = Put(@, name, initm(siminfo, uci, flag, monthly, Zero)),
                   !.alias = IF name = "GQADFX" THEN "" ELSE @]
    ELSE IF flag = -1
    THEN (IF Has(r.ts, tskey)
          THEN [r EXCEPT !.ts = Put(@, name, @[tskey]),
                         !.alias = IF name = "GQADFX" THEN tskey ELSE @]
          ELSE [r EXCEPT !.ok = FALSE])
    ELSE r

Both(k1, k2, v) == IF k2 = "" THEN k1 :> v ELSE (k1 :> v) @@ (k2 :> v)

\* the multiplication is in place: an aliased entry changes with it
DepositionScale(r, factor) ==
    IF r.ok /\ Has(r.ts, "GQADFX")
    THEN [r EXCEPT !.ts = Merge(@, Both("GQADFX", r.alias, Scaled(@["GQADFX"], factor)))]
    ELSE r

Default(d, key, v) == IF Has(d, key) THEN d ELSE Put(d, key, v)

DepositionDefaults(r, simlen) ==
    IF r.ok
    THEN [r EXCEPT !.ts = Default(Default(@, "GQADFX", zeros(simlen)), "GQADCN", zeros(simlen)),
                   !.alias = IF Has(r.ts, "GQADFX") THEN @ ELSE ""]
    ELSE r

\* the atmospheric deposition series of the constituent; ok is false where
\* a series named by a flag of -1 is not in ts
Deposition(siminfo, uci, ts0, alias, i, parms) ==
    IF Has(parms, "GQADFG" \o ToString(i * 2 - 1))
    THEN DepositionDefaults(
             DepositionScale(
                 DepositionInput(siminfo, uci,
                     DepositionInput(siminfo, uci, [ok |-> TRUE, ts |-> ts0, alias |-> alias],
                                     Trunc(parms["GQADFG" \o ToString(i * 2 - 1)]), "GQADFX",
                                     Name(i) \o "_MONTHLY/GQADFX",
                                     "GQADFX" \o ToString(i) \o " 1"),
                     Trunc(parms["GQADFG" \o ToString(i * 2)]), "GQADCN",
                     Name(i) \o "_MONTHLY/GQADCN", "GQADCN" \o ToString(i) \o " 1"),
                 RDiv(Q(siminfo.delt, 60), RMul(R(24), AFACT(siminfo.units)))),
             siminfo.steps)
    ELSE DepositionDefaults([ok |-> TRUE, ts |-> ts0, alias |-> alias], siminfo.steps)

\* the biomass series of a constituent that undergoes biodegradation
Biomass(siminfo, uci, d, i, parms, gqpm27) ==
    IF parms["QALFG5"] = One
    THEN Put(d, "BIO",
             IF gqpm27 = 1 \/ gqpm27 = 3
             THEN initm(siminfo, uci, gqpm27, Name(i) \o "_MONTHLY/BIO", parms["BIO"])
             ELSE full(siminfo.steps, parms["BIO"]))
    ELSE d

\* the series of the table gq-values, and the season of each step
Values(siminfo, uci, d, gen, parms, mon) ==
    Put(ValueSeries(siminfo, uci,
        ValueSeries(siminfo, uci,
        ValueSeries(siminfo, uci,
        ValueSeries(siminfo, uci,
        ValueSeries(siminfo, uci,
        ValueSeries(siminfo, uci, d,
                    GenFlag(gen, "TEMPFG"), parms, "TWAT", R(60), mon \o "WATEMP", "TW_GQ"),
                    GenFlag(gen, "PHFLAG"), parms, "PHVAL", R(7), mon \o "PHVAL", "PHVAL_GQ"),
                    GenFlag(gen, "ROXFG"), parms, "ROC", Zero, mon \o "ROXYGEN", "ROC_GQ"),
                    GenFlag(gen, "CLDFG"), parms, "CLD", Zero, mon \o "CLOUD", "CLOUD_GQ"),
                    GenFlag(gen, "SDFG"), parms, "SDCNC", Zero, mon \o "SEDCONC", "SDCNC_GQ"),
                    GenFlag(gen, "PHYTFG"), parms, "PHY", Zero, mon \o "PHYTO", "PHYTO_GQ"),
        "DAYVAL", dayval(siminfo, SeasonOfMonth))

\* the photolysis tables of a constituent that undergoes photolysis
PhotolysisTables(uci, parms) ==
    IF parms["QALFG3"] = One
    THEN Merge(Merge(Merge(Merge(Extended(uci, "EXTENDEDS_PHOTPM", "photpm", 20),
                                 Extended(uci, "EXTENDEDS_ALPH", "alph", NBands)),
                           Extended(uci, "EXTENDEDS_GAMM", "gamm", NBands)),
                     Extended(uci, "EXTENDEDS_DEL", "delta", NBands)),
               Extended(uci, "EXTENDEDS_KCLD", "kcld", NBands))
    ELSE <<>>

\* gqual, the body of the loop up to the call of _gqual_
GqualConstituent ==
    /\ pc = "constituent"
    /\ \E parms \in {inp.uci[Name(index)]} :
       \E dep \in {Deposition(inp.siminfo, inp.uci, ts, gq.alias, index, parms)} :
          /\ gq' = [gq EXCEPT !.alias = dep.alias]
          /\ IF dep.ok
             THEN /\ ts' = Values(inp.siminfo, inp.uci,
                                  Biomass(inp.siminfo, inp.uci, dep.ts, index, parms,
                                          IF Has(parms, "GQPM21")
                                          THEN Trunc(parms["GQPM27"]) ELSE 2),
                                  ui, parms, Name(index) \o "_MONTHLY/")
                  /\ ui' = Merge(Merge(Put(ui, "index", R(index)),
                                       PhotolysisTables(inp.uci, parms)), parms)
                  /\ pc' = "pgqual"
             ELSE \* KeyError
                  /\ ts' = dep.ts
                  /\ ui' = Put(ui, "index", R(index))
                  /\ pc' = "raised"
    /\ UNCHANGED <<inp, index, loop, errs, gqerrors, loc, w, save, fvars>>

\* the conversion factor of the sediment series; 3.121e-8 is taken as the
\* nearest unit fraction
SedCf(uunits) == IF uunits = 1 THEN Q(1, 32041012) ELSE Q(1, 1000000)

Vec(d, prefix, suffix, n) == [i \in 1 .. n |-> d[prefix \o ToString(i) \o suffix]]

PerDay(x, delt60) == RDiv(RMul(x, delt60), R(24))

\* the table gq-daughter, c[i, j] from the key Cij
Daughter(d) ==
    [i \in 0 .. 7 |-> [j \in 0 .. 6 |->
        IF Has(d, "C21") /\ 1 <= j /\ j < i /\ i >= 2
        THEN d["C" \o ToString(i) \o ToString(j)] ELSE Zero]]

\* the sediment series the sediment-associated constituent reads
SedimentSeries(nexits) ==
    {"RSED1", "RSED2", "RSED3", "RSED4", "RSED5", "RSED6",
     "DEPSCR1", "DEPSCR2", "DEPSCR3", "ROSED1", "ROSED2", "ROSED3"}
    \cup (IF nexits > 1
          THEN {"OSED" \o ToString(j) \o ToString(x) : j \in 1 .. 3, x \in 1 .. nexits}
          ELSE {})

\* the other series _gqual_ reads without a substitute
RequiredSeries == {"AVDEP", "WIND", "AVVEL", "PREC", "SAREA"}

\* the process flags of the constituent, table gq-qalfg
Qalfg(d) == [i \in 1 .. 7 |-> Trunc(d["QALFG" \o ToString(i)])]

\* the storages of material on sediment with their totals: suspended 1 .. 3
\* and their sum 4, bed 5 .. 7 and their sum 8, by fraction 9 .. 11, all 12
Totals(rs) ==
    [i \in 1 .. 12 |->
        CASE i \in {1, 2, 3, 5, 6, 7} -> rs[i]
          [] i = 4 -> RAdd(RAdd(rs[1], rs[2]), rs[3])
          [] i = 8 -> RAdd(RAdd(rs[5], rs[6]), rs[7])
          [] i \in {9, 10, 11} -> RAdd(rs[i - 8], rs[i - 4])
          [] OTHER -> RAdd(RAdd(RAdd(rs[1], rs[5]), RAdd(rs[2], rs[6])),
                           RAdd(rs[3], rs[7]))]

\* the set of light data a latitude in whole degrees selects; there is no
\* table for the equator, so the table of 10 degrees is used there
LightBand(lat) ==
    LET light == (Abs(lat) + 5) \div 10
    IN  IF light = 0 THEN 1 ELSE light

\* the locals of _gqual_ set before the time loop
Locals(d, s) ==
    LET uunits == Trunc(d["uunits"])
        delt60 == d["delt60"]
        delts == d["delts"]
        ngqual == Trunc(d["ngqual"])
        qalfg == Qalfg(d)
        gqpm2 == [i \in 1 .. 7 |->
                    IF Has(d, "GQPM21") THEN Trunc(d["GQPM2" \o ToString(i)])
                    ELSE IF i = 7 THEN 2 ELSE 0]
        sed == qalfg[7] = 1
        svol == d["svol"]
        sqal == [i \in 1 .. 6 |-> IF sed THEN d["SQAL" \o ToString(i)] ELSE Zero]
        cf == SedCf(uunits)
        rsed == [i \in 1 .. 6 |->
                    IF sed THEN RDiv(s["RSED" \o ToString(i)][0], cf) ELSE Zero]
        rsed0 == [i \in 1 .. 3 |->
                    IF Has(d, "SSED1") THEN d["SSED" \o ToString(i)]
                    ELSE s["RSED" \o ToString(i)][0]]
        rs == [i \in 1 .. 7 |->
                  IF ~sed \/ i = 4 THEN Zero
                  ELSE IF i <= 3 THEN RMul(RMul(sqal[i], rsed0[i]), svol)
                  ELSE RMul(sqal[i - 1], rsed[i - 1])]
        phot == qalfg[3] = 1
        vol4 == qalfg[4] = 1
        lkfg == Trunc(d["LKFG"])
        reamfg == IF ~vol4 THEN 0 ELSE IF Has(d, "REAMFG") THEN Trunc(d["REAMFG"]) ELSE 2
        band(prefix) == [l \in 0 .. NBands |->
                            IF phot /\ l >= 1 /\ Has(d, prefix \o "1")
                            THEN d[prefix \o ToString(l)] ELSE Zero]
    IN  [simlen |-> Trunc(d["simlen"]), nexits |-> Trunc(d["NEXITS"]), uunits |-> uunits,
         delt60 |-> delt60, delts |-> delts, index |-> Trunc(d["index"]), ngqual |-> ngqual,
         ddqal |-> [k \in 0 .. 7 |-> [j \in 0 .. ngqual |-> Zero]],
         tempfg |-> IF Has(d, "TEMPFG") THEN Trunc(d["TEMPFG"]) ELSE 2,
         phflag |-> IF Has(d, "TEMPFG") THEN Trunc(d["PHFLAG"]) ELSE 2,
         roxfg |-> IF Has(d, "TEMPFG") THEN Trunc(d["ROXFG"]) ELSE 2,
         cldfg |-> IF Has(d, "TEMPFG") THEN Trunc(d["CLDFG"]) ELSE 2,
         sdfg |-> IF Has(d, "TEMPFG") THEN Trunc(d["SDFG"]) ELSE 2,
         phytfg |-> IF Has(d, "TEMPFG") THEN Trunc(d["PHYTFG"]) ELSE 2,
         lat |-> IF Has(d, "TEMPFG") THEN Trunc(d["LAT"]) ELSE 0,
         lkfg |-> lkfg,
         len_ |-> IF ~Has(d, "LEN") THEN Zero
                  ELSE RMul(d["LEN"], IF uunits = 2 THEN R(1000) ELSE R(5280)),
         delth |-> IF Has(d, "LEN") THEN d["DELTH"] ELSE Zero,
         dqal |-> d["DQAL"], conv |-> d["CONV"], svol |-> svol,
         qalfg |-> qalfg, gqpm2 |-> gqpm2,
         ka |-> IF qalfg[1] = 1 THEN RMul(d["KA"], delts) ELSE Zero,
         kb |-> IF qalfg[1] = 1 THEN RMul(d["KB"], delts) ELSE Zero,
         kn |-> IF qalfg[1] = 1 THEN RMul(d["KN"], delts) ELSE Zero,
         thhyd |-> IF qalfg[1] = 1 THEN d["THHYD"] ELSE Zero,
         kox |-> IF qalfg[2] = 1 THEN RMul(d["KOX"], delts) ELSE Zero,
         thox |-> IF qalfg[2] = 1 THEN d["THOX"] ELSE Zero,
         photpm |-> [i \in 0 .. 20 |->
                        IF phot /\ i >= 1 /\ Has(d, "photpm1")
                        THEN d["photpm" \o ToString(i)] ELSE Zero],
         cfgas |-> IF vol4 THEN d["CFGAS"] ELSE Zero,
         biocon |-> IF qalfg[5] = 1 THEN PerDay(d["BIOCON"], delt60) ELSE Zero,
         thbio |-> IF qalfg[5] = 1 THEN d["THBIO"] ELSE Zero,
         biop |-> IF qalfg[5] = 1 THEN d["BIO"] ELSE Zero,
         fstdec |-> IF qalfg[6] = 1 THEN PerDay(d["FSTDEC"], delt60) ELSE Zero,
         thfst |-> IF qalfg[6] = 1 THEN d["THFST"] ELSE Zero,
         addcpm |-> IF sed THEN <<PerDay(d["ADDCP1"], delt60), d["ADDCP2"],
                                  PerDay(d["ADDCP3"], delt60), d["ADDCP4"]>>
                    ELSE <<Zero, Zero, Zero, Zero>>,
         adpm1 |-> IF sed THEN Vec(d, "ADPM", "1", 6) ELSE [i \in 1 .. 6 |-> Zero],
         adpm2 |-> [i \in 1 .. 6 |->
                      IF sed THEN PerDay(d["ADPM" \o ToString(i) \o "2"], delt60) ELSE Zero],
         adpm3 |-> [i \in 1 .. 6 |->
                      IF ~sed THEN Zero
                      ELSE IF Has(d, "ADPM13") THEN d["ADPM" \o ToString(i) \o "3"]
                      ELSE Q(107, 100)],
         sqal |-> sqal, rsqal |-> Totals(rs),
         alph |-> band("alph"), gamm |-> band("gamm"),
         delta |-> band("delta"), kcld |-> band("kcld"),
         fact1 |-> IF phot
                   THEN PerDay(IF Has(d, "CFSAEX") THEN d["CFSAEX"] ELSE One, delt60)
                   ELSE Zero,
         light |-> IF phot THEN LightBand(Trunc(d["LAT"])) ELSE 1,
         reamfg |-> reamfg,
         cforea |-> IF vol4 /\ lkfg = 1
                    THEN (IF Has(d, "CFOREA") THEN d["CFOREA"] ELSE One) ELSE Zero,
         tcginv |-> IF ~vol4 \/ lkfg = 1 THEN Zero
                    ELSE IF reamfg = 2
                         THEN (IF Has(d, "TCGINV") THEN d["TCGINV"] ELSE Q(1047, 1000))
                    ELSE IF reamfg \in {1, 3} THEN d["TCGINV"] ELSE Zero,
         reak |-> IF vol4 /\ lkfg # 1 /\ reamfg = 3 THEN d["REAK"] ELSE Zero,
         reakt |-> IF vol4 /\ lkfg # 1 /\ reamfg = 1 THEN d["REAKT"] ELSE Zero,
         expred |-> IF vol4 /\ lkfg # 1 /\ reamfg = 3 THEN d["EXPRED"] ELSE Zero,
         exprev |-> IF vol4 /\ lkfg # 1 /\ reamfg = 3 THEN d["EXPREV"] ELSE Zero,
         c |-> Daughter(d)]

\* the checks made whether the section hydr is active or not
ConfigChecksAlways(d, qalfg, errors) ==
    LET aux1fg == Trunc(d["AUX1FG"])
        aux2fg == Trunc(d["AUX2FG"])
        lkfg == Trunc(d["LKFG"])
        e0 == IF qalfg[7] = 1 /\ Trunc(d["SEDFG"]) = 0 THEN Bump(errors, 0) ELSE errors
        e1 == IF qalfg[3] = 1 /\ aux1fg = 0 THEN Bump(e0, 1) ELSE e0
        e2 == IF qalfg[4] = 1 /\ lkfg = 0 /\ aux2fg = 0 THEN Bump(e1, 2) ELSE e1
    IN  IF qalfg[4] = 1 /\ lkfg # 0 /\ aux1fg = 0 THEN Bump(e2, 3) ELSE e2

\* ConfigChecks with the counters of the stream and of the lake exchanged
ConfigChecksSwapped(d, qalfg, errors) ==
    LET aux1fg == Trunc(d["AUX1FG"])
        aux2fg == Trunc(d["AUX2FG"])
        lkfg == Trunc(d["LKFG"])
        hydr == Trunc(d["HYDRFG"]) = 1
        e0 == IF qalfg[7] = 1 /\ Trunc(d["SEDFG"]) = 0 THEN Bump(errors, 0) ELSE errors
        e1 == IF hydr /\ qalfg[3] = 1 /\ aux1fg = 0 THEN Bump(e0, 1) ELSE e0
        e2 == IF hydr /\ qalfg[4] = 1 /\ lkfg = 0 /\ aux2fg = 0 THEN Bump(e1, 3) ELSE e1
    IN  IF hydr /\ qalfg[4] = 1 /\ lkfg # 0 /\ aux1fg = 0 THEN Bump(e2, 2) ELSE e2

\* the checks of the configuration made before the time loop
ConfigChecks(d, qalfg, errors) ==
    LET aux1fg == Trunc(d["AUX1FG"])
        aux2fg == Trunc(d["AUX2FG"])
        lkfg == Trunc(d["LKFG"])
        hydr == Trunc(d["HYDRFG"]) = 1
        e0 == IF qalfg[7] = 1 /\ Trunc(d["SEDFG"]) = 0 THEN Bump(errors, 0) ELSE errors
        e1 == IF hydr /\ qalfg[3] = 1 /\ aux1fg = 0 THEN Bump(e0, 1) ELSE e0
        e2 == IF hydr /\ qalfg[4] = 1 /\ lkfg = 0 /\ aux2fg = 0 THEN Bump(e1, 2) ELSE e1
    IN  IF hydr /\ qalfg[4] = 1 /\ lkfg # 0 /\ aux1fg = 0 THEN Bump(e2, 3) ELSE e2

\* Substitute without the count of the missing series
SubstituteSilent(r, simlen, flag, key, gqkey, slot) ==
    IF flag # 1 THEN r
    ELSE IF Has(r.ts, key) THEN [ts |-> Put(r.ts, gqkey, r.ts[key]), errors |-> r.errors]
    ELSE [ts |-> Put(r.ts, gqkey, zeros(simlen)), errors |-> r.errors]

\* a series a gq-gendata flag of 1 asks of ts, or zeros and a count
Substitute(r, simlen, flag, key, gqkey, slot) ==
    IF flag # 1 THEN r
    ELSE IF Has(r.ts, key) THEN [ts |-> Put(r.ts, gqkey, r.ts[key]), errors |-> r.errors]
    ELSE [ts |-> Put(r.ts, gqkey, zeros(simlen)), errors |-> Bump(r.errors, slot)]

InputSeries(s, simlen, f) ==
    LET r1 == Substitute([ts |-> s, errors |-> f.errors], simlen, f.tempfg, "TW", "TW_GQ", 6)
        r2 == Substitute(r1, simlen, f.phflag, "PHVAL", "PHVAL_GQ", 7)
        r3 == Substitute(r2, simlen, f.roxfg, "ROC", "ROC_GQ", 8)
        r4 == Substitute(r3, simlen, f.cldfg, "CLOUD", "CLOUD_GQ", 9)
        r5 == Substitute(r4, simlen, f.sdfg, "SSED4", "SDCNC_GQ", 10)
    IN  Substitute(r5, simlen, f.phytfg, "PHYTO", "PHYTO_GQ", 11)

Range(prefix, n) == {prefix \o ToString(i) : i \in 1 .. n}

\* the output series of a constituent, by the part of the name after GQUALi_
OutNames ==
    Range("ADQAL", 7) \cup Range("DDQAL", 7) \cup Range("DSQAL", 4) \cup Range("ROSQAL", 4)
    \cup Range("RSQAL", 12) \cup Range("SQAL", 6) \cup Range("SQDEC", 7)
    \cup {"DQAL", "GQADDR", "GQADEP", "GQADWT", "ISQAL4", "PDQAL", "RDQAL", "RODQAL",
          "RRQAL", "TIQAL", "TROQAL"}

InflowNames == {"IDQAL", "ISQAL1", "ISQAL2", "ISQAL3"}

\* the entries _gqual_ adds to ts before the time loop
Allocated(s, i, simlen) ==
    LET name == Name(i) \o "_"
        inflow == {name \o n : n \in InflowNames} \ DOMAIN s
        out == {name \o n : n \in OutNames}
        bio == IF Has(s, "BIO") THEN {} ELSE {"BIO"}
    IN  Merge(s, [k \in inflow \cup out \cup bio |-> zeros(simlen)])

ExitMatrix(simlen, nexits) == [t \in Steps(simlen) |-> [x \in 1 .. nexits |-> Zero]]

\* _gqual_, up to the time loop
Pgqual ==
    /\ pc = "pgqual"
    /\ \E qalfg \in {Qalfg(ui)} :
       IF \/ qalfg[7] = 1 /\ ~(Range("RSED", 6) \subseteq DOMAIN ts)
          \/ qalfg[3] = 1 /\ ~Has(ui, "TEMPFG")
       THEN \* KeyError at the sediment storages, or lat never bound
            /\ errs' = NoErrors
            /\ UNCHANGED <<ts, loc>>
            /\ pc' = "raised"
       ELSE \E l \in {Locals(ui, ts)} :
            \E r \in {InputSeries(ts, l.simlen,
                          [errors |-> ConfigChecks(ui, qalfg, NoErrors), tempfg |-> l.tempfg,
                           phflag |-> l.phflag, roxfg |-> l.roxfg, cldfg |-> l.cldfg,
                           sdfg |-> l.sdfg, phytfg |-> l.phytfg])} :
               /\ errs' = r.errors
               /\ IF \/ ~(RequiredSeries \subseteq DOMAIN r.ts)
                     \/ qalfg[7] = 1 /\ ~(SedimentSeries(l.nexits) \subseteq DOMAIN r.ts)
                  THEN \* KeyError at a series read without a substitute
                       /\ ts' = r.ts
                       /\ UNCHANGED loc
                       /\ pc' = "raised"
                  ELSE /\ ts' = Allocated(r.ts, l.index, l.simlen)
                       /\ loc' = l @@ [TOQAL |-> ExitMatrix(l.simlen, l.nexits),
                                       ODQAL |-> ExitMatrix(l.simlen, l.nexits),
                                       OSQAL1 |-> ExitMatrix(l.simlen, l.nexits),
                                       OSQAL2 |-> ExitMatrix(l.simlen, l.nexits),
                                       OSQAL3 |-> ExitMatrix(l.simlen, l.nexits),
                                       TOSQAL |-> ExitMatrix(l.simlen, l.nexits)]
                       /\ pc' = IF l.simlen > 0 THEN "advect" ELSE "return"
    /\ loop' = 0
    /\ w' = <<>>
    /\ UNCHANGED <<inp, index, ui, gqerrors, save, gq, fvars>>

\* the light factors, in units of 1e-7, by latitude band, season and
\* wavelength band
LightTable ==
    <<
    <<
       <<102000, 178000, 285000, 327000, 418000, 370000, 3390000, 4330000, 8400000, 11600000, 14700000, 15000000, 27400000, 29000000, 29000000, 28000000, 27000000, 30000000>>,
       <<4660, 31600, 93700, 190000, 291000, 265000, 3290000, 4380000, 8370000, 11700000, 14700000, 15000000, 26900000, 27900000, 28000000, 28000000, 27000000, 25000000>>,
       <<4190, 28700, 85100, 17300, 266000, 291000, 2990000, 3850000, 7640000, 10700000, 13600000, 13700000, 24600000, 25200000, 26000000, 26000000, 25000000, 23000000>>,
       <<3200, 23900, 72600, 151000, 238000, 236000, 292000, 3440000, 6960000, 9800000, 12300000, 12700000, 22600000, 23500000, 24300000, 23000000, 24000000, 21000000>>
    >>,
    <<
       <<3510, 25100, 80900, 181000, 282000, 283000, 3290000, 4240000, 8410000, 11700000, 14700000, 15000000, 26800000, 28000000, 28000000, 28000000, 27600000, 25000000>>,
       <<4440, 31500, 96100, 197000, 302000, 303000, 3470000, 4470000, 8830000, 12300000, 15500000, 15800000, 28100000, 29600000, 29000000, 30000000, 28000000, 27000000>>,
       <<2740, 22000, 68900, 148000, 233000, 233000, 2680000, 3450000, 6960000, 9800000, 12400000, 12600000, 23000000, 23500000, 24200000, 24000000, 22000000, 22600000>>,
       <<1470, 14700, 53400, 115000, 188000, 188000, 2210000, 2860000, 5970000, 8400000, 10600000, 10900000, 19500000, 20300000, 20700000, 21000000, 23600000, 16000000>>
    >>,
    <<
       <<2300, 21300, 72600, 165000, 264000, 269000, 3200000, 4140000, 8270000, 11500000, 14500000, 14800000, 26400000, 27400000, 27600000, 28000000, 27000000, 25000000>>,
       <<3650, 23200, 90200, 192000, 302000, 304000, 3740000, 4370000, 9070000, 13400000, 15900000, 16200000, 28900000, 30300000, 30000000, 30000000, 29000000, 28000000>>,
       <<1350, 14400, 48400, 116000, 189000, 230000, 2230000, 2840000, 6230000, 8500000, 10900000, 11100000, 20000000, 20700000, 20900000, 21000000, 21000000, 19000000>>,
       <<410, 6500, 27600, 75500, 131000, 134000, 1700000, 2190000, 4750000, 6690000, 8500000, 8800000, 15700000, 16300000, 16700000, 17300000, 16300000, 16000000>>
    >>,
    <<
       <<1090, 13700, 29600, 79900, 138000, 142000, 1780000, 2300000, 5260000, 6760000, 8900000, 9230000, 16900000, 17300000, 17800000, 15000000, 17000000, 16000000>>,
       <<2490, 23200, 79300, 181000, 291000, 297000, 3540000, 4580000, 9710000, 12800000, 14300000, 16300000, 29200000, 30500000, 30000000, 31000000, 29000000, 29000000>>,
       <<1090, 13700, 53500, 138000, 231900, 239000, 1080000, 3840000, 7910000, 11100000, 13900000, 14200000, 25200000, 26200000, 26000000, 47000000, 26000000, 25000000>>,
       <<54, 1560, 10200, 37900, 75300, 81000, 752000, 1470000, 3380000, 4800000, 6100000, 6200000, 11200000, 11600000, 11900000, 13900000, 12000000, 11600000>>
    >>,
    <<
       <<371, 7100, 35500, 73000, 18400, 196000, 2660000, 3480000, 7240000, 10200000, 12900000, 13200000, 23400000, 24000000, 24400000, 25000000, 25000000, 23000000>>,
       <<79, 17500, 65300, 163000, 267000, 277000, 3430000, 4440000, 9040000, 12600000, 16000000, 16300000, 29000000, 30400000, 30000000, 31000000, 29000000, 29000000>>,
       <<1520, 2250, 12900, 43900, 86400, 92000, 1240000, 1660000, 3650000, 5170000, 6600000, 6800000, 12200000, 12500000, 13100000, 13400000, 13100000, 12400000>>,
       <<4, 157, 1780, 12000, 29300, 36800, 629000, 821000, 1960000, 2750000, 3510000, 3550000, 6300000, 6400000, 6900000, 7100000, 7100000, 6900000>>
    >>
    >>

light_factor(l, lset, light) ==
    IF light \in 1 .. 5
    THEN Q(LightTable[light][IF lset = R(1) THEN 1 ELSE IF lset = R(2) THEN 2
                             ELSE IF lset = R(3) THEN 3 ELSE 4][l], 10000000)
    ELSE Zero

\* light_factor is called for a wavelength band and a season with the set of
\* light data of a latitude
Latitudes == {-90, -60, -55, -54, -40, -5, -4, 0, 4, 5, 14, 15, 40, 54, 55, 60, 90}

InitLight ==
    /\ fpc = "in"
    /\ fname = "light_factor"
    /\ \E lat \in Latitudes, l \in Bands, lset \in 1 .. 4 :
          fin = [lat |-> lat, l |-> l, lset |-> lset]
    /\ fout = <<>>
    /\ RunIdle

CallLight ==
    /\ fpc = "in"
    /\ fname = "light_factor"
    /\ fout' = [light |-> LightBand(fin.lat),
                value |-> light_factor(fin.l, R(fin.lset), LightBand(fin.lat))]
    /\ fpc' = "out"
    /\ UNCHANGED <<fname, fin>>
    /\ UNCHANGED rvars

SpecLight == InitLight /\ [][CallLight]_vars

\* the light extinction exponent of a band, clamped
Expnt(m, l, sdcnc, phy, avdepm) ==
    LET kl == RAdd(RAdd(m.alph[l], RMul(m.gamm[l], sdcnc)), RMul(m.delta[l], phy))
        expnt == RMul(RMul(RMul(Q(276, 100), kl), avdepm), R(100))
    IN  IF RLe(expnt, R(-20)) THEN R(-20)
        ELSE IF RGe(expnt, R(20)) THEN R(20)
        ELSE expnt

\* the season of the light data, two seasons on in the southern hemisphere
Lset(season, lat) ==
    IF lat < 0
    THEN (IF RGt(RAdd(season, R(2)), R(4)) THEN RSub(season, R(2)) ELSE RAdd(season, R(2)))
    ELSE season

\* the precalculated photolysis factors of the step
Fact2(m, lset, cld, sdcnc, phy, avdepm) ==
    [l \in 0 .. NBands |->
        IF l = 0 THEN Zero
        ELSE LET expnt == Expnt(m, l, sdcnc, phy, avdepm)
                 cldl == RDiv(RSub(R(10), RMul(cld, m.kcld[l])), R(10))
             IN  RDiv(RMul(RMul(cldl, light_factor(l, lset, m.light)),
                           RSub(One, ExpNeg(expnt))), expnt)]

\* the oxygen reaeration coefficient, as the reaeration routine gives it
oxrea == inp.korea

\* advection of a constituent entrained in the water
advect(imat, conc, nexits, vols, vol, srovol, erovol, sovol, eovol) ==
    IF RGt(vol, Zero)
    THEN LET new == RDiv(RAdd(imat, RMul(conc, RSub(vols, srovol))), RAdd(vol, erovol))
         IN  [conc |-> new,
              romat |-> RAdd(RMul(srovol, conc), RMul(erovol, new)),
              omat |-> [x \in 1 .. nexits |->
                          IF nexits > 1
                          THEN RAdd(RMul(sovol[x], conc), RMul(eovol[x], new))
                          ELSE Zero]]
    ELSE LET romat == RAdd(imat, RMul(conc, vols))
         IN  [conc |-> Undefined,
              romat |-> romat,
              omat |-> [x \in 1 .. nexits |->
                          IF nexits > 1 /\ RGt(srovol, Zero)
                          THEN RMul(RDiv(sovol[x], srovol), romat)
                          ELSE Zero]]

\* the inflow without the wet deposition
IndqalDry(idqal, gqaddr, gqadwt) == RAdd(idqal, gqaddr)

\* the inflow of dissolved material: from upstream, dry and wet deposition
Indqal(idqal, gqaddr, gqadwt) == RAdd(RAdd(idqal, gqaddr), gqadwt)

\* the water temperature above 20 degrees C
Tw20(tw) ==
    IF RGe(tw, R(50)) THEN R(30)
    ELSE IF RLe(tw, R(-10)) THEN Zero
    ELSE RSub(tw, R(20))

\* the depth of 0.17 feet taken as deep
DeepFrom(avdepe) == RGe(avdepe, Q(17, 100))

\* the depth above which decay and exchange are simulated
Deep(avdepe) == RGt(avdepe, Q(17, 100))

\* the water temperature of the step in degrees C
Celsius(uunits, tw) == IF uunits = 1 THEN RMul(RSub(tw, R(32)), Q(5555, 10000)) ELSE tw

\* the average depth of the step in metres and in feet
Avdepm(uunits, avdep) == IF uunits = 2 THEN avdep ELSE RMul(avdep, Q(3048, 10000))

Avdepe(uunits, avdep) == IF uunits = 2 THEN RMul(avdep, Q(328, 100)) ELSE avdep

\* the conversions of a step under each unit system, for a water
\* temperature in degrees C and a depth in metres that reach the English run
\* as degrees F and as feet of the given length in metres
Depths ==
    {Q(1, 100), Q(1, 20), Q(2591, 50000), Q(13, 250), Q(1, 10), Q(1, 2), One, R(2),
     R(3), R(10)}

Temperatures == {R(-20), Zero, R(20), R(40), R(60)}

Feet == {Q(381, 1250), Q(25, 82)}

InitUnits ==
    /\ fpc = "in"
    /\ fname = "units"
    /\ \E avdep \in Depths, tw \in Temperatures, foot \in Feet :
          fin = [avdep |-> <<RDiv(avdep, foot), avdep>>,
                 tw |-> <<RAdd(RMul(tw, Q(9, 5)), R(32)), tw>>,
                 foot |-> foot]
    /\ fout = <<>>
    /\ RunIdle

CallUnits ==
    /\ fpc = "in"
    /\ fname = "units"
    /\ fout' = [uunits \in {1, 2} |->
                  [tw20 |-> Tw20(Celsius(uunits, fin.tw[uunits])),
                   avdepm |-> Avdepm(uunits, fin.avdep[uunits]),
                   avdepe |-> Avdepe(uunits, fin.avdep[uunits]),
                   deep |-> Deep(Avdepe(uunits, fin.avdep[uunits]))]]
    /\ fpc' = "out"
    /\ UNCHANGED <<fname, fin>>
    /\ UNCHANGED rvars

SpecUnits == InitUnits /\ [][CallUnits]_vars

\* the time loop: the inputs of the step and advection of the dissolved
\* material
StepAdvect ==
    /\ pc = "advect"
    /\ LET m == loc
           name == Name(m.index) \o "_"
           tw == Celsius(m.uunits, ts["TW_GQ"][loop])
           vol == RMul(ts["VOL"][loop], AFACT(m.uunits))
           sed == m.qalfg[7] = 1
           cf == SedCf(m.uunits)
           sedv(key) == IF sed THEN RDiv(ts[key][loop], cf) ELSE Zero
           avdep == ts["AVDEP"][loop]
           avdepm == Avdepm(m.uunits, avdep)
           avdepe == Avdepe(m.uunits, avdep)
           phot == m.qalfg[3] > 0 /\ Deep(avdepe)
           sdcnc == ts["SDCNC_GQ"][loop]
           phy == ts["PHYTO_GQ"][loop]
           gqaddr == RMul(RMul(ts["SAREA"][loop], m.conv), ts["GQADFX"][loop])
           gqadwt == RMul(RMul(ts["PREC"][loop], ts["SAREA"][loop]), ts["GQADCN"][loop])
           idqal == RMul(ts[name \o "IDQAL"][loop], m.conv)
           adv == advect(Indqal(idqal, gqaddr, gqadwt), m.dqal, m.nexits, m.svol, vol,
                         ts["SROVOL"][loop], ts["EROVOL"][loop],
                         [x \in 1 .. m.nexits |-> ts["SOVOL" \o ToString(x)][loop]],
                         [x \in 1 .. m.nexits |-> ts["EOVOL" \o ToString(x)][loop]])
       IN  IF phot /\ \E l \in Bands : Expnt(m, l, sdcnc, phy, avdepm) = Zero
           THEN \* ZeroDivisionError in the photolysis factor
                /\ pc' = "raised"
                /\ UNCHANGED <<w, loc>>
           ELSE /\ pc' = "decay"
                /\ loc' = [m EXCEPT !.dqal = adv.conc]
                /\ w' = [tw20 |-> Tw20(tw), vol |-> vol, avdepe |-> avdepe,
                         phval |-> ts["PHVAL_GQ"][loop], roc |-> ts["ROC_GQ"][loop],
                         fact2 |-> IF phot
                                   THEN Fact2(m, Lset(ts["DAYVAL"][loop], m.lat),
                                              ts["CLOUD_GQ"][loop], sdcnc, phy, avdepm)
                                   ELSE [l \in 0 .. NBands |-> Zero],
                         korea |-> IF m.qalfg[4] > 0 /\ Deep(avdepe) THEN oxrea ELSE Zero,
                         gqaddr |-> gqaddr, gqadwt |-> gqadwt,
                         gqadep |-> RAdd(gqaddr, gqadwt), idqal |-> idqal,
                         rodqal |-> adv.romat, odqal |-> adv.omat,
                         bio |-> IF m.qalfg[5] > 0 THEN ts["BIO"][loop] ELSE m.biop,
                         hr |-> Trunc(ts["HRFG"][loop]),
                         depscr |-> [j \in 1 .. 3 |-> sedv("DEPSCR" \o ToString(j))],
                         rosed |-> [j \in 1 .. 3 |-> sedv("ROSED" \o ToString(j))],
                         osed |-> [j \in 1 .. 3 |-> [x \in 1 .. m.nexits |->
                                     IF m.nexits > 1
                                     THEN sedv("OSED" \o ToString(j) \o ToString(x))
                                     ELSE sedv("ROSED" \o ToString(j))]],
                         rsed |-> [j \in 1 .. 6 |->
                                     sedv("RSED" \o ToString(j))],
                         isqal |-> [j \in 1 .. 3 |-> ts[name \o "ISQAL" \o ToString(j)][loop]]]
    /\ UNCHANGED <<inp, index, loop, ui, ts, errs, gqerrors, save, gq, fvars>>

\* adecay without the test of the concentration against the noise floor
adecayNoFloor(addcpm1, addcpm2, tw20, rsed, sqal) ==
    LET fact == RSub(One, ExpNeg(RMul(addcpm1, RPow(addcpm2, tw20))))
        decays(j) == RGt(addcpm1, Zero)
    IN  [sqal |-> [j \in 1 .. 3 |->
                      IF decays(j) THEN RSub(sqal[j], RMul(sqal[j], fact)) ELSE sqal[j]],
         sqdec |-> [j \in 1 .. 3 |->
                      IF decays(j) THEN RMul(RMul(sqal[j], fact), rsed[j]) ELSE Zero]]

\* decay of material in the adsorbed state, for the three fractions
adecay(addcpm1, addcpm2, tw20, rsed, sqal) ==
    LET fact == RSub(One, ExpNeg(RMul(addcpm1, RPow(addcpm2, tw20))))
        decays(j) == RGt(addcpm1, Zero) /\ AboveFloor(sqal[j])
    IN  [sqal |-> [j \in 1 .. 3 |->
                      IF decays(j) THEN RSub(sqal[j], RMul(sqal[j], fact)) ELSE sqal[j]],
         sqdec |-> [j \in 1 .. 3 |->
                      IF decays(j) THEN RMul(RMul(sqal[j], fact), rsed[j]) ELSE Zero]]

\* adecay is called with a rate constant that is negative, zero or
\* positive, on classes that hold material, none, or the undefined value
InitAdecay ==
    /\ fpc = "in"
    /\ fname = "adecay"
    /\ \E addcpm1 \in {R(-1), Zero, Q(1, 2), One}, addcpm2 \in {Q(1, 2), One, R(2)},
          tw20 \in {R(-1), Zero, One},
          rsed \in {<<R(2), R(2), R(2)>>, <<R(2), Zero, One>>, <<Zero, R(3), R(2)>>},
          sqal \in [1 .. 3 -> {Undefined, Zero, One, R(3)}] :
          fin = [addcpm1 |-> addcpm1, addcpm2 |-> addcpm2, tw20 |-> tw20,
                 rsed |-> rsed, sqal |-> sqal]
    /\ fout = <<>>
    /\ RunIdle

CallAdecay ==
    /\ fpc = "in"
    /\ fname = "adecay"
    /\ fout' = adecay(fin.addcpm1, fin.addcpm2, fin.tw20, fin.rsed, fin.sqal)
    /\ fpc' = "out"
    /\ UNCHANGED <<fname, fin>>
    /\ UNCHANGED rvars

SpecAdecay == InitAdecay /\ [][CallAdecay]_vars

\* 1/a and c/a of a site class from its transfer rate akj
AinvCainv(akj, adpm1, sqal) ==
    [ainv |-> RMul(RMul(akj, adpm1), RDiv(One, RAdd(One, akj))),
     cainv |-> RMul(sqal, RDiv(One, RAdd(One, akj)))]

\* the fluxes 1 .. 6 of f with their sum in 7; 0 is not used
WithTotal(f) ==
    Table([j \in 0 .. 7 |->
              IF j = 0 THEN Zero ELSE IF j = 7 THEN RSum(f, 1, 6) ELSE f[j]])

\* 1/a and c/a of the site classes, zero for a class that is absent
Sites(rsed, adpm1, adpm2, adpm3, tw20, sqal) ==
    Table([j \in 1 .. 6 |->
              IF RGt(rsed[j], Zero)
              THEN AinvCainv(RMul(adpm2[j], RPow(adpm3[j], tw20)), adpm1[j], sqal[j])
              ELSE [ainv |-> Zero, cainv |-> Zero]])

\* Dissolved with the capacity of the sites left out of the balance
DissolvedWaterOnly(vol, rsed, dqal, sqal, a) ==
    RDiv(RAdd(RMul(vol, dqal),
              RSum([j \in 1 .. 6 |->
                      IF RGt(rsed[j], Zero)
                      THEN RMul(RSub(sqal[j], a[j].cainv), rsed[j]) ELSE Zero], 1, 6)),
         vol)

\* the new dissolved concentration
Dissolved(vol, rsed, dqal, sqal, a) ==
    RDiv(RAdd(RMul(vol, dqal),
              RSum([j \in 1 .. 6 |->
                      IF RGt(rsed[j], Zero)
                      THEN RMul(RSub(sqal[j], a[j].cainv), rsed[j]) ELSE Zero], 1, 6)),
         RAdd(vol, RSum([j \in 1 .. 6 |->
                           IF RGt(rsed[j], Zero) THEN RMul(rsed[j], a[j].ainv) ELSE Zero],
                        1, 6)))

\* Adsorbed with the equilibrium taken on the absent classes too
AdsorbedAll(rsed, sqal, a, new) ==
    Table([j \in 1 .. 6 |-> RAdd(a[j].cainv, RMul(new, a[j].ainv))])

\* the new concentration on each site class; that of an absent class stays
Adsorbed(rsed, sqal, a, new) ==
    Table([j \in 1 .. 6 |->
              IF RGt(rsed[j], Zero) THEN RAdd(a[j].cainv, RMul(new, a[j].ainv)) ELSE sqal[j]])

\* the material transferred to each site class, and in all
Transferred(rsed, sqal, conc) ==
    WithTotal(Table([j \in 1 .. 6 |->
                        IF RGt(rsed[j], Zero)
                        THEN RMul(RSub(conc[j], sqal[j]), rsed[j]) ELSE Zero]))

Exchanged(rsed, sqal, new, conc) ==
    [dqal |-> new, sqal |-> conc, adqal |-> Transferred(rsed, sqal, conc)]

Equilibrium(rsed, sqal, a, new) == Exchanged(rsed, sqal, new, Adsorbed(rsed, sqal, a, new))

Exchange(vol, rsed, dqal, sqal, a) ==
    Equilibrium(rsed, sqal, a, Dissolved(vol, rsed, dqal, sqal, a))

\* exchange between the dissolved state and the six adsorption site classes
adsdes(vol, rsed, adpm1, adpm2, adpm3, tw20, dqal, sqal) ==
    IF RGt(vol, Zero)
    THEN Exchange(vol, rsed, dqal, sqal, Sites(rsed, adpm1, adpm2, adpm3, tw20, sqal))
    ELSE [dqal |-> dqal, sqal |-> sqal, adqal |-> [j \in 0 .. 7 |-> Zero]]

\* adsdes is called on a reach with or without water, with any of the six
\* site classes present, absent or of negative mass
AdsdesParms ==
    {[adpm1 |-> [j \in 1 .. 6 |-> One], adpm2 |-> [j \in 1 .. 6 |-> One],
      adpm3 |-> [j \in 1 .. 6 |-> One]],
     [adpm1 |-> [j \in 1 .. 6 |-> IF j <= 3 THEN R(2) ELSE One],
      adpm2 |-> [j \in 1 .. 6 |-> IF j <= 3 THEN One ELSE R(3)],
      adpm3 |-> [j \in 1 .. 6 |-> Q(3, 2)]]}

RsedVectors ==
    {[j \in 1 .. 6 |-> IF j \in present THEN R(2) ELSE absent] :
        present \in SUBSET (1 .. 6), absent \in {Zero, R(-1)}}

SqalVectors == {<<One, R(2), Zero, One, Zero, R(2)>>, <<Undefined, One, One, Zero, R(3), One>>}

InitAdsdes ==
    /\ fpc = "in"
    /\ fname = "adsdes"
    /\ \E vol \in {R(-1), Zero, R(3)}, rsed \in RsedVectors, p \in AdsdesParms,
          tw20 \in {Zero, One}, dqal \in {Zero, R(2)}, sqal \in SqalVectors :
          fin = [vol |-> vol, rsed |-> rsed, p |-> p, tw20 |-> tw20, dqal |-> dqal,
                 sqal |-> sqal]
    /\ fout = <<>>
    /\ RunIdle

CallAdsdes ==
    /\ fpc = "in"
    /\ fname = "adsdes"
    /\ fout' = adsdes(fin.vol, fin.rsed, fin.p.adpm1, fin.p.adpm2, fin.p.adpm3,
                      fin.tw20, fin.dqal, fin.sqal)
    /\ fpc' = "out"
    /\ UNCHANGED <<fname, fin>>
    /\ UNCHANGED rvars

SpecAdsdes == InitAdsdes /\ [][CallAdsdes]_vars

\* the input to a daughter from the decay of its parents
Pdqal(gqpm2, ddqal, c, i) ==
    LET itobe == i - 1
    IN  RSum([k \in 1 .. 6 |->
                IF gqpm2[k] = 1
                THEN RSum([j \in 1 .. (itobe - 1) |-> RMul(ddqal[k][j], c[j][k])],
                          1, itobe - 1)
                ELSE Zero], 1, 6)

\* the time loop: decay of the dissolved material and input from parents
StepDecay ==
    /\ pc = "decay"
    /\ \E col \in {IF Deep(w.avdepe)
                   THEN ddecay(loc.qalfg, w.tw20, loc.ka, loc.kb, loc.kn, loc.thhyd, w.phval,
                               loc.kox, loc.thox, w.roc, w.fact2, loc.fact1, loc.photpm,
                               w.korea, loc.cfgas, loc.biocon, loc.thbio, w.bio, loc.fstdec,
                               loc.thfst, w.vol, loc.dqal, w.hr, loc.delt60)
                   ELSE [k \in 0 .. 7 |-> Zero]} :
       LET m == loc
           deep == Deep(w.avdepe)
           ddqal == [k \in 0 .. 7 |-> [j \in 0 .. m.ngqual |->
                        IF j = m.index THEN col[k] ELSE m.ddqal[k][j]]]
           pdqal == IF deep THEN Pdqal(m.gqpm2, ddqal, m.c, m.index) ELSE Zero
       IN  /\ loc' = [m EXCEPT !.ddqal = ddqal,
                               !.dqal = IF deep /\ RGt(w.vol, Zero)
                                        THEN RAdd(@, RDiv(RSub(pdqal, col[7]), w.vol))
                                        ELSE @]
           \* the fluxes of the sediment fractions start the step at zero
           /\ w' = w @@ [pdqal |-> pdqal,
                         adqal |-> [j \in 0 .. 7 |-> Zero],
                         dsqal |-> [j \in 1 .. 4 |-> Zero],
                         rosqal |-> [j \in 1 .. 4 |-> Zero],
                         osqal |-> [j \in 1 .. 3 |-> [x \in 1 .. m.nexits |-> Zero]],
                         sqdec |-> [j \in 1 .. 7 |-> Zero],
                         isqal4 |-> Zero]
           /\ pc' = IF m.qalfg[7] = 1 THEN "advqal" ELSE "totals"
    /\ UNCHANGED <<inp, index, loop, ui, ts, errs, gqerrors, save, gq, fvars>>

Over(v, conv) == Table([x \in DOMAIN v |-> RDiv(v[x], conv)])

\* the three fractions with their sum
WithSum(v) == <<v[1], v[2], v[3], RAdd(RAdd(v[1], v[2]), v[3])>>

\* the time loop: advection, deposition and scour of the material on the
\* three sediment fractions
StepAdvqal ==
    /\ pc = "advqal"
    /\ \E a1 \in {advqal(RMul(w.isqal[1], loc.conv), w.rsed[1], w.rsed[4], w.depscr[1],
                         w.rosed[1], w.osed[1], loc.nexits, loc.rsqal[1], loc.rsqal[5],
                         errs)} :
       \E a2 \in {advqal(RMul(w.isqal[2], loc.conv), w.rsed[2], w.rsed[5], w.depscr[2],
                         w.rosed[2], w.osed[2], loc.nexits, loc.rsqal[2], loc.rsqal[6],
                         a1.errors)} :
       \E a3 \in {advqal(RMul(w.isqal[3], loc.conv), w.rsed[3], w.rsed[6], w.depscr[3],
                         w.rosed[3], w.osed[3], loc.nexits, loc.rsqal[3], loc.rsqal[7],
                         a2.errors)} :
       \E osqal \in {<<Over(a1.osqal, loc.conv), Over(a2.osqal, loc.conv),
                       Over(a3.osqal, loc.conv)>>} :
       \E rosqal \in {WithSum(<<RDiv(a1.rosqal, loc.conv), RDiv(a2.rosqal, loc.conv),
                                RDiv(a3.rosqal, loc.conv)>>)} :
       \E isqal4 \in {RAdd(RAdd(w.isqal[1], w.isqal[2]), w.isqal[3])} :
       \* range(1, nexits) leaves the first exit as it was
       \E tosqal \in {Table([x \in 1 .. loc.nexits |->
                               IF x >= 2
                               THEN RAdd(RAdd(osqal[1][x], osqal[2][x]), osqal[3][x])
                               ELSE loc.TOSQAL[loop][x]])} :
          /\ errs' = a3.errors
          \* range(0, nexits - 1) leaves the last exit as it was
          /\ loc' = [loc EXCEPT
                        !.sqal = <<a1.sqal, a2.sqal, a3.sqal, a1.bqal, a2.bqal, a3.bqal>>,
                        !.TOQAL[loop] =
                            [x \in 1 .. loc.nexits |->
                                IF loc.nexits > 1 /\ x <= loc.nexits - 1
                                THEN RAdd(w.odqal[x], tosqal[x]) ELSE @[x]]]
          /\ w' = Merge(w, [dsqal |-> WithSum(<<a1.dsqal, a2.dsqal, a3.dsqal>>),
                            rosqal |-> rosqal, osqal |-> osqal, isqal4 |-> isqal4,
                            tosqal |-> tosqal,
                            tiqal |-> RAdd(w.idqal, isqal4),
                            troqal |-> RAdd(RDiv(w.rodqal, loc.conv), rosqal[4])])
          /\ pc' = "adecay"
    /\ UNCHANGED <<inp, index, loop, ui, ts, gqerrors, save, gq, fvars>>

First3(v) == [j \in 1 .. 3 |-> v[j]]

Last3(v) == [j \in 1 .. 3 |-> v[j + 3]]

Six(a, b) == [j \in 1 .. 6 |-> IF j <= 3 THEN a[j] ELSE b[j - 3]]

Last7(v) == [j \in 1 .. 7 |-> v[j]]

\* the quantities on the suspended sediment alone, the bed left out
RsqalSuspended(sqal, rsed) ==
    Totals(Table([i \in 1 .. 7 |->
                     IF i <= 3 THEN RMul(sqal[i], rsed[i]) ELSE Zero]))

\* the quantities of material on the forms of sediment
Rsqal(sqal, rsed) ==
    Totals(Table([i \in 1 .. 7 |->
                     IF i = 4 THEN Zero
                     ELSE IF i <= 3 THEN RMul(sqal[i], rsed[i])
                     ELSE RMul(sqal[i - 1], rsed[i - 1])]))

\* the time loop: decay on the suspended and the bed sediment, and the
\* exchange by adsorption and desorption
StepAdecay ==
    /\ pc = "adecay"
    /\ \E susp \in {IF Deep(w.avdepe)
                    THEN adecay(loc.addcpm[1], loc.addcpm[2], w.tw20, First3(w.rsed),
                                First3(loc.sqal))
                    ELSE [sqal |-> First3(loc.sqal), sqdec |-> [j \in 1 .. 3 |-> Zero]]} :
       \E bed \in {adecay(loc.addcpm[3], loc.addcpm[4], w.tw20, Last3(w.rsed),
                          Last3(loc.sqal))} :
       \E x \in {IF Deep(w.avdepe)
                 THEN adsdes(w.vol, w.rsed, loc.adpm1, loc.adpm2, loc.adpm3, w.tw20,
                             loc.dqal, Six(susp.sqal, bed.sqal))
                 ELSE [dqal |-> loc.dqal, sqal |-> Six(susp.sqal, bed.sqal),
                       adqal |-> [j \in 0 .. 7 |-> Zero]]} :
          /\ loc' = [loc EXCEPT !.dqal = x.dqal, !.sqal = x.sqal,
                                !.rsqal = Rsqal(x.sqal, w.rsed)]
          /\ w' = Merge(w, [adqal |-> x.adqal,
                            sqdec |-> Last7(WithTotal(Six(susp.sqdec, bed.sqdec)))])
          /\ pc' = "totals"
    /\ UNCHANGED <<inp, index, loop, ui, ts, errs, gqerrors, save, gq, fvars>>

\* the record rec under the keys prefix \o field
Keyed(prefix, rec) ==
    [k \in {prefix \o f : f \in DOMAIN rec} |->
        rec[CHOOSE f \in DOMAIN rec : k = prefix \o f]]

\* the values of the step put back into the series, by the key of the series
StepOutputs(name, m, v, tiqal, troqal, rdqal, rrqal) ==
    Merge(Merge(Merge(Merge(Merge(Merge(Merge(
        Keyed(name,
              [DQAL |-> m.dqal, GQADDR |-> v.gqaddr, GQADEP |-> v.gqadep,
               GQADWT |-> v.gqadwt, ISQAL4 |-> v.isqal4, PDQAL |-> v.pdqal,
               RDQAL |-> RDiv(rdqal, m.conv), RODQAL |-> RDiv(v.rodqal, m.conv),
               RRQAL |-> RDiv(rrqal, m.conv), TIQAL |-> RDiv(tiqal, m.conv),
               TROQAL |-> troqal]),
        Numbered(name \o "ADQAL", Over(Last7(v.adqal), m.conv), 7)),
        Numbered(name \o "DDQAL", [j \in 1 .. 7 |-> RDiv(m.ddqal[j][m.index], m.conv)], 7)),
        Numbered(name \o "DSQAL", Over(v.dsqal, m.conv), 4)),
        Numbered(name \o "ROSQAL", v.rosqal, 4)),
        Numbered(name \o "RSQAL", Over(m.rsqal, m.conv), 12)),
        Numbered(name \o "SQAL", m.sqal, 6)),
        Numbered(name \o "SQDEC", Over(v.sqdec, m.conv), 7))

\* the series of ts with the values of out at every step
StoredThroughout(s, out, t) ==
    Merge(s, [k \in DOMAIN out |-> [u \in DOMAIN s[k] |-> out[k]]])

\* the series of ts with the values of out at the step
Stored(s, out, t) == Merge(s, [k \in DOMAIN out |-> [s[k] EXCEPT ![t] = out[k]]])

\* the time loop: the totals of the step and its outputs
StepTotals ==
    /\ pc = "totals"
    /\ \E sed \in {loc.qalfg[7] = 1} :
       \E rdqal \in {RMul(loc.dqal, w.vol)} :
          /\ ts' = Stored(ts,
                          StepOutputs(Name(loc.index) \o "_", loc, w,
                                      IF sed THEN w.tiqal ELSE w.idqal,
                                      IF sed THEN w.troqal ELSE RDiv(w.rodqal, loc.conv),
                                      rdqal,
                                      IF sed THEN RAdd(rdqal, loc.rsqal[12]) ELSE rdqal),
                          loop)
          \* range(1, nexits) leaves the first exit as it was
          /\ loc' = [loc EXCEPT
                        !.svol = w.vol,
                        !.TOQAL[loop] =
                            IF sed THEN @
                            ELSE [x \in 1 .. loc.nexits |->
                                    IF x >= 2 THEN w.odqal[x] ELSE @[x]],
                        !.ODQAL[loop] = Over(w.odqal, loc.conv),
                        !.OSQAL1[loop] = w.osqal[1],
                        !.OSQAL2[loop] = w.osqal[2],
                        !.OSQAL3[loop] = w.osqal[3],
                        !.TOSQAL[loop] = IF sed THEN w.tosqal ELSE @]
          /\ loop' = loop + 1
          /\ pc' = IF loop + 1 < loc.simlen THEN "advect" ELSE "return"
    /\ w' = <<>>
    /\ UNCHANGED <<inp, index, ui, errs, gqerrors, save, gq, fvars>>

\* the column of an exit in a matrix of steps by exits
Column(M, x) == [t \in DOMAIN M |-> M[t][x]]

\* the SAVE entries of the exits, made from the entry of the whole reach;
\* ok is false where that entry is not in the table
Expand(r, key, names, n) ==
    IF ~r.ok \/ ~Has(r.save, key) THEN [ok |-> FALSE, save |-> r.save]
    ELSE [ok |-> TRUE,
          save |-> Del(Merge(r.save, [k \in UNION {Range(p, n) : p \in names} |-> r.save[key]]),
                       key)]

\* the series of the exits, one for each column of the matrices of _gqual_
ExitSeries(name, m, n) ==
    Merge(Merge(Merge(Merge(
        Numbered(name \o "ODQAL", [x \in 1 .. n |-> Column(m.ODQAL, x)], n),
        Numbered(name \o "OSQAL1", [x \in 1 .. n |-> Column(m.OSQAL1, x)], n)),
        Numbered(name \o "OSQAL2", [x \in 1 .. n |-> Column(m.OSQAL2, x)], n)),
        Numbered(name \o "OSQAL3", [x \in 1 .. n |-> Column(m.OSQAL3, x)], n)),
        Numbered(name \o "TOSQAL", [x \in 1 .. n |-> Column(m.TOSQAL, x)], n))

\* the SAVE table with the entries of the exits of a constituent
Expanded(u, name, n) ==
    Expand(Expand(Expand([ok |-> TRUE, save |-> u], "ODQAL", {name \o "ODQAL"}, n),
                  "OSQAL", {name \o "OSQAL1", name \o "OSQAL2", name \o "OSQAL3"}, n),
           "TOSQAL", {name \o "TOSQAL"}, n)

\* the end of _gqual_ and the rest of the body of the loop of gqual
Return ==
    /\ pc = "return"
    /\ gqerrors' = errs
    /\ IF loc.nexits > 1
       THEN \E u \in {Expanded(save, Name(loc.index) \o "_", loc.nexits)} :
               /\ ts' = Merge(ts, ExitSeries(Name(loc.index) \o "_", loc, loc.nexits))
               /\ save' = u.save
               /\ pc' = IF ~u.ok THEN "raised"       \* KeyError
                        ELSE IF index < loc.ngqual THEN "constituent" ELSE "done"
               /\ index' = IF u.ok THEN index + 1 ELSE index
       ELSE /\ UNCHANGED <<ts, save>>
            /\ pc' = IF index < loc.ngqual THEN "constituent" ELSE "done"
            /\ index' = index + 1
    /\ UNCHANGED <<inp, loop, ui, errs, loc, w, gq, fvars>>

(***************************************************************************)
(* The runs checked: reaches, constituents and series                      *)
(***************************************************************************)
Siminfo(steps, units, hour) ==
    [delt |-> 60, steps |-> steps, units |-> units, month |-> 6, hour |-> hour]

\* volumes in the units of VOL, so that the engine sees whole numbers
PerAfact(k, units) == RDiv(R(k), AFACT(units))

\* a reach that holds 3 and passes 1 per step; when drying, it is empty at
\* the end of the second step and refills in the third
Hydraulics(nexits, steps, units, drying) ==
    LET dry(t) == drying /\ t = 1
        after(t) == drying /\ t = 2
        srovol(t) == IF dry(t) THEN R(3) ELSE IF after(t) THEN Zero ELSE One
        erovol(t) == IF dry(t) THEN Zero ELSE One
    IN  [nexits |-> nexits, vol |-> PerAfact(3, units),
         VOL |-> [t \in Steps(steps) |-> IF dry(t) THEN Zero ELSE PerAfact(3, units)],
         SROVOL |-> [t \in Steps(steps) |-> srovol(t)],
         EROVOL |-> [t \in Steps(steps) |-> erovol(t)],
         SOVOL |-> [x \in 1 .. nexits |-> [t \in Steps(steps) |-> RDiv(srovol(t), R(nexits))]],
         EOVOL |-> [x \in 1 .. nexits |-> [t \in Steps(steps) |-> RDiv(erovol(t), R(nexits))]]]

\* the series of the hydraulics and the weather; a shallow step is the
\* second one, of 0.1 feet or of the metres that make 0.17 feet
Weather(steps, units, shallow) ==
    LET depth(t) == IF shallow /\ t = 1
                    THEN (IF units = 1 THEN Q(1, 10) ELSE Q(17, 328))
                    ELSE One
    IN  [AVDEP |-> [t \in Steps(steps) |-> depth(t)], WIND |-> full(steps, One),
         AVVEL |-> full(steps, One), PREC |-> full(steps, One),
         SAREA |-> full(steps, R(2))]

Section(nexits, lkfg, hydrfg, aux1fg, aux2fg, sedfg) ==
    [NEXITS |-> R(nexits), LKFG |-> R(lkfg), HYDRFG |-> R(hydrfg),
     AUX1FG |-> R(aux1fg), AUX2FG |-> R(aux2fg), SEDFG |-> R(sedfg), HTFG |-> One]

GenData(ngqual, lat) ==
    [NGQUAL |-> R(ngqual), TEMPFG |-> R(2), PHFLAG |-> R(2), ROXFG |-> R(2),
     CLDFG |-> R(2), SDFG |-> R(2), PHYTFG |-> R(2), LAT |-> R(lat)]

\* 20 degrees C in the units of the run
Twat(units) == IF units = 1 THEN Q(75552, 1111) ELSE R(20)

\* the tables of a constituent: f are its seven process flags; every rate
\* is 1 per interval of an hour and every temperature coefficient is 1
Qual(i, units, dqal, f) ==
    Merge(Numbered("QALFG", [k \in 1 .. 7 |-> R(f[k])], 7),
          [DQAL |-> dqal, CONV |-> R(2), TWAT |-> Twat(units), PHVAL |-> R(7),
           ROC |-> One, KA |-> Q(25000, 9), KB |-> Zero, KN |-> Zero, THHYD |-> One,
           KOX |-> Q(1, 3600), THOX |-> One, CFGAS |-> One, BIOCON |-> R(24),
           THBIO |-> One, BIO |-> One, FSTDEC |-> R(24), THFST |-> One,
           ADDCP1 |-> R(24), ADDCP2 |-> One, ADDCP3 |-> R(24), ADDCP4 |-> One,
           ADPM11 |-> One, ADPM21 |-> One, ADPM31 |-> One, ADPM41 |-> One,
           ADPM51 |-> One, ADPM61 |-> One, ADPM12 |-> R(24), ADPM22 |-> R(24),
           ADPM32 |-> R(24), ADPM42 |-> R(24), ADPM52 |-> R(24), ADPM62 |-> R(24),
           SQAL1 |-> One, SQAL2 |-> R(2), SQAL3 |-> Zero, SQAL4 |-> One,
           SQAL5 |-> Zero, SQAL6 |-> R(2)])

\* the table gq-flg2: the constituent is a daughter through process k
Flg2(k) ==
    Merge(Numbered("GQPM2", [p \in 1 .. 6 |-> IF p = k THEN One ELSE Zero], 6),
          [GQPM27 |-> R(2)])

\* the table gq-daughter with every entry 1
DaughterTable ==
    [k \in UNION {{"C" \o ToString(i) \o ToString(j) : j \in 1 .. (i - 1)} : i \in 2 .. 7} |->
        One]

\* the photolysis tables: band 18 alone absorbs, and the water is opaque;
\* the absorption makes the rate 1 per interval under the light of the run
Photolysis ==
    [EXTENDEDS_PHOTPM |-> [b \in 1 .. 20 |->
                             IF b = 18 THEN Q(2520, 29) ELSE IF b > 18 THEN One ELSE Zero],
     EXTENDEDS_ALPH |-> [b \in 1 .. NBands |-> One],
     EXTENDEDS_GAMM |-> [b \in 1 .. NBands |-> Zero],
     EXTENDEDS_DEL |-> [b \in 1 .. NBands |-> Zero],
     EXTENDEDS_KCLD |-> [b \in 1 .. NBands |-> Zero]]

SaveTable == [ODQAL |-> 1, OSQAL |-> 1, TOSQAL |-> 1, DQAL |-> 1]

\* uci with the tables of the constituents under GQUAL1, GQUAL2, ...
Uci(hyd, parameters, quals, n) ==
    Merge(Merge([advectData |-> hyd, PARAMETERS |-> parameters, MONTHLY |-> <<>>,
                 SAVE |-> SaveTable],
                Numbered("GQUAL", quals, n)),
          Photolysis)

\* the sediment series of a reach: each class holds 2, the sand scours 1,
\* the silt deposits 1 and the clay is at rest; 1 leaves per step
Sediment(nexits, steps, units) ==
    LET per(k) == full(steps, RMul(R(k), SedCf(units)))
        each(k) == full(steps, RDiv(RMul(R(k), SedCf(units)), R(nexits)))
    IN  Merge([RSED1 |-> per(2), RSED2 |-> per(2), RSED3 |-> per(2), RSED4 |-> per(2),
               RSED5 |-> per(2), RSED6 |-> per(0), DEPSCR1 |-> per(-1), DEPSCR2 |-> per(1),
               DEPSCR3 |-> per(0), ROSED1 |-> per(1), ROSED2 |-> per(1), ROSED3 |-> per(0)],
              Merge(Merge(Numbered("OSED1", [x \in 1 .. nexits |-> each(1)], nexits),
                          Numbered("OSED2", [x \in 1 .. nexits |-> each(1)], nexits)),
                    Numbered("OSED3", [x \in 1 .. nexits |-> each(0)], nexits)))

NoFlags == [k \in 1 .. 7 |-> 0]

Only(p) == [k \in 1 .. 7 |-> IF k = p THEN 1 ELSE 0]

AllDecay == [k \in 1 .. 7 |-> IF k <= 6 THEN 1 ELSE 0]

\* the deposition series of constituent i, in the units that make the flux 1
DepositionSeries(i, steps, units) ==
    Merge(("GQADFX" \o ToString(i) \o " 1") :> full(steps, RMul(R(24), AFACT(units))),
          ("GQADCN" \o ToString(i) \o " 1") :> full(steps, One))

DepositionFlags(i) ==
    Merge(("GQADFG" \o ToString(2 * i - 1)) :> R(-1), ("GQADFG" \o ToString(2 * i)) :> R(-1))

Inflow(i, steps) == (Name(i) \o "_IDQAL") :> full(steps, R(4))

All(f, n) ==
    LET upto[i \in 0 .. n] == IF i = 0 THEN <<>> ELSE Merge(upto[i - 1], f[i])
    IN  upto[n]

\* conservative constituents in a reach of one or more exits
PlainRuns ==
    {[siminfo |-> Siminfo(steps, units, 10),
      uci |-> Uci(Hydraulics(nexits, steps, units, drying),
                  Merge(Section(nexits, 0, 1, 1, 1, 0), GenData(ngqual, 40)),
                  [i \in 1 .. ngqual |->
                      Merge(Qual(i, units, dqal, NoFlags),
                            IF fed THEN DepositionFlags(i) ELSE <<>>)],
                  ngqual),
      ts |-> Merge(Weather(steps, units, FALSE),
                   IF fed
                   THEN All([i \in 1 .. ngqual |->
                               Merge(DepositionSeries(i, steps, units), Inflow(i, steps))],
                            ngqual)
                   ELSE <<>>),
      korea |-> One] :
     steps \in 1 .. MaxSteps, units \in {1, 2}, nexits \in 1 .. MaxExits,
     ngqual \in 1 .. MaxGqual, drying \in BOOLEAN, fed \in BOOLEAN, dqal \in {Zero, R(2)}}

DecayFlags == {Only(p) : p \in 1 .. 6} \cup {NoFlags, AllDecay}

\* decaying constituents; each constituent after the first is a daughter
\* of those before it through general decay
DecayRuns ==
    {[siminfo |-> Siminfo(steps, units, hour),
      uci |-> Uci(Hydraulics(1, steps, units, FALSE),
                  Merge(Section(1, 0, 1, 1, 1, 0), GenData(ngqual, 40)),
                  [i \in 1 .. ngqual |->
                      IF i = 1 THEN Qual(i, units, R(2), f)
                      ELSE Merge(Merge(Qual(i, units, R(2), Only(6)), Flg2(6)),
                                 DaughterTable)],
                  ngqual),
      ts |-> Weather(steps, units, shallow),
      korea |-> One] :
     steps \in 1 .. MaxSteps, units \in {1, 2}, ngqual \in 1 .. MaxGqual,
     f \in DecayFlags, shallow \in BOOLEAN, hour \in {10, 22}}

\* sediment-associated constituents, with the sediment section on or off
\* and its series in ts or not
SedimentRuns ==
    {[siminfo |-> Siminfo(steps, 2, 10),
      uci |-> Uci(Hydraulics(nexits, steps, 2, FALSE),
                  Merge(Merge(Section(nexits, 0, 1, 1, 1, sedfg), GenData(1, 40)),
                        [SSED1 |-> One, SSED2 |-> One, SSED3 |-> One]),
                  [i \in 1 .. 1 |-> Qual(i, 2, R(2), [f EXCEPT ![7] = 1])],
                  1),
      ts |-> Merge(Weather(steps, 2, shallow),
                   IF series THEN Sediment(nexits, steps, 2) ELSE <<>>),
      korea |-> One] :
     steps \in 1 .. MaxSteps, nexits \in 1 .. MaxExits, sedfg \in {0, 1},
     series \in BOOLEAN, shallow \in BOOLEAN, f \in {NoFlags, Only(6)}}

\* the first constituent with photolysis or volatilization or neither, the
\* others conservative, under every setting of the section hydr
CheckedRuns ==
    {[siminfo |-> Siminfo(1, 2, 10),
      uci |-> Uci(Hydraulics(1, 1, 2, FALSE),
                  Merge(Section(1, lkfg, hydrfg, aux1fg, aux2fg, 0), GenData(ngqual, 40)),
                  [i \in 1 .. ngqual |-> Qual(i, 2, R(2), IF i = 1 THEN f ELSE NoFlags)],
                  ngqual),
      ts |-> Weather(1, 2, FALSE),
      korea |-> One] :
     ngqual \in 1 .. MaxGqual, lkfg \in {0, 1}, hydrfg \in {0, 1}, aux1fg \in {0, 1},
     aux2fg \in {0, 1}, f \in {NoFlags, Only(3), Only(4), [k \in 1 .. 7 |-> IF k \in {3, 4} THEN 1 ELSE 0]}}

\* the six source flags of table gq-gendata, the series a flag of 1 asks
\* of ts, the series _gqual_ reads, and the counter of a missing series
SourceFlags == <<"TEMPFG", "PHFLAG", "ROXFG", "CLDFG", "SDFG", "PHYTFG">>

SourceSeries == <<"TW", "PHVAL", "ROC", "CLOUD", "SSED4", "PHYTO">>

GqSeries == <<"TW_GQ", "PHVAL_GQ", "ROC_GQ", "CLOUD_GQ", "SDCNC_GQ", "PHYTO_GQ">>

SourceSlot(i) == 5 + i

\* table gq-gendata with the flags of the sources in ones set to 1
GenSources(ngqual, lat, ones) ==
    Merge(GenData(ngqual, lat), [k \in {SourceFlags[i] : i \in ones} |-> One])

\* the input series of the sources in present: 20 degrees C, pH 7, an
\* oxidant concentration of 1, a clear sky and clear water
SourceInput(steps, units, present) ==
    LET value == <<Twat(units), R(7), One, Zero, Zero, Zero>>
    IN  [k \in {SourceSeries[i] : i \in present} |->
            full(steps, value[CHOOSE i \in present : SourceSeries[i] = k])]

SourceSets == {{}, 1 .. 6} \cup {{i} : i \in 1 .. 6}

\* one constituent, conservative or oxidized, with none, one or all of the
\* sources read from ts and none, one or all of the series in ts
SeriesRuns ==
    {[siminfo |-> Siminfo(steps, units, 10),
      uci |-> Uci(Hydraulics(1, steps, units, FALSE),
                  Merge(Section(1, 0, 1, 1, 1, 0), GenSources(1, 40, ones)),
                  [i \in 1 .. 1 |-> Qual(i, units, R(2), f)],
                  1),
      ts |-> Merge(Weather(steps, units, FALSE), SourceInput(steps, units, present)),
      korea |-> One] :
     steps \in 1 .. MaxSteps, units \in {1, 2}, ones \in SourceSets,
     present \in SourceSets, f \in {NoFlags, Only(2)}}

\* the sediment series of a reach without suspended clay, without silt on
\* the bed, or without either
Bare(nexits, steps, missing) ==
    Merge(Sediment(nexits, steps, 2),
          [k \in (IF "clay" \in missing THEN {"RSED3", "ROSED3"} ELSE {})
                 \cup (IF "bed" \in missing THEN {"RSED5"} ELSE {}) |-> zeros(steps)])

\* a sediment-associated constituent that comes in on clay, in a reach
\* where a class of sediment is missing
BareRuns ==
    {[siminfo |-> Siminfo(steps, 2, 10),
      uci |-> Uci(Hydraulics(nexits, steps, 2, FALSE),
                  Merge(Merge(Section(nexits, 0, 1, 1, 1, sedfg), GenData(1, 40)),
                        [SSED1 |-> One, SSED2 |-> One, SSED3 |-> One]),
                  [i \in 1 .. 1 |-> Qual(i, 2, R(2), Only(7))],
                  1),
      ts |-> Merge(Merge(Weather(steps, 2, FALSE), Bare(nexits, steps, missing)),
                   (Name(1) \o "_ISQAL3") :> full(steps, One)),
      korea |-> One] :
     steps \in 1 .. MaxSteps, nexits \in 1 .. MaxExits, sedfg \in {0, 1},
     missing \in {{"clay"}, {"bed"}, {"clay", "bed"}}}

\* a reach that holds 3 at the start and one more at the end of each step
Filling(nexits, steps, units) ==
    [Hydraulics(nexits, steps, units, FALSE) EXCEPT
        !.VOL = [t \in Steps(steps) |-> PerAfact(4 + t, units)]]

\* the steps of a run in the filling reach
FillingSteps == 2

\* a sediment-associated constituent, decaying or not, in a reach that
\* fills
FillingRuns ==
    {[siminfo |-> Siminfo(steps, 2, 10),
      uci |-> Uci(Filling(nexits, steps, 2),
                  Merge(Merge(Section(nexits, 0, 1, 1, 1, 1), GenData(1, 40)),
                        [SSED1 |-> One, SSED2 |-> One, SSED3 |-> One]),
                  [i \in 1 .. 1 |-> Qual(i, 2, R(2), [f EXCEPT ![7] = 1])],
                  1),
      ts |-> Merge(Weather(steps, 2, FALSE), Sediment(nexits, steps, 2)),
      korea |-> One] :
     steps \in 1 .. FillingSteps, nexits \in 1 .. MaxExits, f \in {NoFlags, Only(6)}}

\* deposition flags of constituent i that ask for no deposition
NoDepositionFlags(i) ==
    Merge(("GQADFG" \o ToString(2 * i - 1)) :> Zero, ("GQADFG" \o ToString(2 * i)) :> Zero)

\* conservative constituents of which the first alone receives atmospheric
\* deposition; the others have no deposition flags or, where there are
\* two constituents, flags of zero
MixedRuns ==
    {r \in {[siminfo |-> Siminfo(steps, units, 10),
      uci |-> Uci(Hydraulics(1, steps, units, FALSE),
                  Merge(Section(1, 0, 1, 1, 1, 0), GenData(ngqual, 40)),
                  [i \in 1 .. ngqual |->
                      Merge(Qual(i, units, R(2), NoFlags),
                            IF i = 1 THEN DepositionFlags(i)
                            ELSE IF flagged THEN NoDepositionFlags(i) ELSE <<>>)],
                  ngqual),
      ts |-> Merge(Weather(steps, units, FALSE),
                   Merge(DepositionSeries(1, steps, units), Inflow(1, steps))),
      korea |-> One] :
     steps \in 1 .. MaxSteps, units \in {1, 2}, ngqual \in 2 .. MaxGqual,
     flagged \in BOOLEAN} :
        Has(r.uci[Name(2)], "GQADFG3") => r.uci.PARAMETERS.NGQUAL = R(2)}

Runs ==
    PlainRuns \cup DecayRuns \cup SedimentRuns \cup CheckedRuns \cup SeriesRuns
    \cup BareRuns \cup FillingRuns \cup MixedRuns

FunctionIdle == fpc = "idle" /\ fname = "" /\ fin = <<>> /\ fout = <<>>

\* gqual is called with the tables and the series of a run
Init ==
    /\ inp \in Runs
    /\ pc = "gqual"
    /\ index = 0
    /\ loop = 0
    /\ ui = <<>>
    /\ ts = <<>>
    /\ errs = NoErrors
    /\ gqerrors = NoErrors
    /\ loc = <<>>
    /\ w = <<>>
    /\ save = inp.uci.SAVE
    /\ gq = [alias |-> ""]
    /\ FunctionIdle

Next ==
    \/ GqualEnter
    \/ GqualConstituent
    \/ Pgqual
    \/ StepAdvect
    \/ StepDecay
    \/ StepAdvqal
    \/ StepAdecay
    \/ StepTotals
    \/ Return

Spec == Init /\ [][Next]_vars

(***************************************************************************)
(* Properties of the run                                                   *)
(***************************************************************************)
\* _gqual_ is between two steps of its time loop, or past the last one
BetweenSteps == pc \in {"advect", "return"}

\* a constituent with no decay, not on sediment and no daughter, in a reach
\* of one exit
Conservative(m) ==
    /\ \A k \in 1 .. 7 : m.qalfg[k] = 0
    /\ \A k \in 1 .. 6 : m.gqpm2[k] = 0
    /\ m.nexits = 1

\* the dissolved mass step t brought to the reach less the mass that left,
\* from the series of the run
NetMass(m, t) ==
    RSub(RAdd(RAdd(RMul(ts[Name(m.index) \o "_IDQAL"][t], m.conv),
                   ts[Name(m.index) \o "_GQADDR"][t]),
              ts[Name(m.index) \o "_GQADWT"][t]),
         RMul(ts[Name(m.index) \o "_RODQAL"][t], m.conv))

\* C1: for a constituent with the six decay flags off, not associated with
\* sediment, no daughter, in a reach of one exit: after every number of
\* steps the dissolved mass dqal * vol is the starting mass plus the inflow
\* and the dry and wet deposition of the steps less their outflow rodqal.
C1_MassBalance ==
    (BetweenSteps /\ Conservative(loc))
        => RMul(loc.dqal, loc.svol)
               = RAdd(RMul(ui["DQAL"], ui["svol"]),
                      RSum([t \in 0 .. (loop - 1) |-> NetMass(loc, t)], 0, loop - 1))

C1_Witness ==
    /\ pc = "return"
    /\ Conservative(loc)
    /\ loop >= 2
    /\ RGt(ts[Name(loc.index) \o "_IDQAL"][1], Zero)
    /\ RGt(ts[Name(loc.index) \o "_GQADDR"][1], Zero)
    /\ RGt(ts[Name(loc.index) \o "_GQADWT"][1], Zero)
    /\ RGt(ts[Name(loc.index) \o "_RODQAL"][1], Zero)
    /\ RGt(RMul(loc.dqal, loc.svol), RMul(ui["DQAL"], ui["svol"]))

\* the average depth of step t in feet
AvdepFeet(m, t) ==
    IF m.uunits = 2 THEN RMul(ts["AVDEP"][t], Q(328, 100)) ELSE ts["AVDEP"][t]

\* the steps of the constituent whose outputs are in ts, at 0.17 feet or less
ShallowSteps ==
    IF pc \in {"advect", "return"}
    THEN {t \in 0 .. (loop - 1) : RLe(AvdepFeet(loc, t), Q(17, 100))}
    ELSE {}

\* the output series of the constituent are zero at step t
ZeroAt(names, t) == \A n \in names : ts[Name(loc.index) \o "_" \o n][t] = Zero

\* C3 as claimed: in every step whose average depth in feet is <= 0.17 the
\* dissolved decay DDQAL1..7, the decay on sediment SQDEC1..7 and the
\* exchange fluxes ADQAL1..7 are all zero.
C3_Original ==
    \A t \in ShallowSteps :
        ZeroAt(Range("DDQAL", 7) \cup Range("SQDEC", 7) \cup Range("ADQAL", 7), t)

\* C3 as amended: in every step whose average depth in feet is <= 0.17 the
\* dissolved decay DDQAL1..7, the decay on suspended sediment SQDEC1..3 and
\* the exchange fluxes ADQAL1..7 are all zero.
C3_ShallowStep ==
    \A t \in ShallowSteps :
        ZeroAt(Range("DDQAL", 7) \cup Range("SQDEC", 3) \cup Range("ADQAL", 7), t)

\* a sediment-associated constituent with general decay: the first step is
\* deep and decays, the second is shallow and decays on the bed alone
C3_Witness ==
    /\ 1 \in ShallowSteps
    /\ loc.qalfg[6] = 1 /\ loc.qalfg[7] = 1
    /\ RGt(ts[Name(loc.index) \o "_DDQAL7"][0], Zero)
    /\ RGt(ts[Name(loc.index) \o "_SQDEC1"][0], Zero)
    /\ ts[Name(loc.index) \o "_ADQAL7"][0] # Zero
    /\ ts[Name(loc.index) \o "_DDQAL7"][1] = Zero
    /\ ts[Name(loc.index) \o "_SQDEC1"][1] = Zero
    /\ RGt(ts[Name(loc.index) \o "_SQDEC4"][1], Zero)

\* the mass of constituent j that process k decayed in step t, as the run
\* of constituent j put it out
Produced(k, j, t) ==
    RMul(ts[Name(j) \o "_DDQAL" \o ToString(k)][t], inp.uci[Name(j)]["CONV"])

\* the steps of the constituent whose outputs are in ts, deeper than 0.17
\* feet and with water in the reach
DeepSteps ==
    IF pc \in {"advect", "return"}
    THEN {t \in 0 .. (loop - 1) :
            /\ RGt(AvdepFeet(loc, t), Q(17, 100))
            /\ RGt(ts["VOL"][t], Zero)}
    ELSE {}

\* the input the parents of constituent i owe it for step t: over the
\* constituents j < i and the processes k that mark i as a daughter, the
\* mass decayed times the fraction of the table gq-daughter for i from j
DaughterInput(m, t) ==
    RSum([j \in 1 .. (m.index - 1) |->
            RSum([k \in 1 .. 6 |->
                    IF m.gqpm2[k] = 1
                    THEN RMul(Produced(k, j, t), m.c[m.index][j]) ELSE Zero], 1, 6)],
         1, m.index - 1)

\* C4: for constituent i in a step deeper than the threshold with volume
\* > 0, the input from its parents, which is added to its concentration
\* after division by the volume, is the sum over the lower-indexed
\* constituents j and the processes k that mark i as a daughter of
\* ddqal[k][j] times the fraction of the daughter table for the pair.
C4_DaughterInput ==
    \A t \in DeepSteps : ts[Name(loc.index) \o "_PDQAL"][t] = DaughterInput(loc, t)

\* C5: the constituents are processed in increasing order of index, and
\* where constituent i has worked out its decay and the input from its
\* parents for step t, the decayed masses ddqal[k][j] it holds for every
\* constituent j < i are those constituent j produced for step t.
C5_SameStepValues ==
    (pc = "totals" /\ Deep(w.avdepe))
        => /\ \A j \in 1 .. loc.ngqual :
                 Has(ts, Name(j) \o "_DDQAL7") <=> j <= loc.index
           /\ \A j \in 1 .. (loc.index - 1) : \A k \in 1 .. 7 :
                 loc.ddqal[k][j] = Produced(k, j, loop)

\* C8: the error counters only accumulate over the whole run: no counter
\* of the vector gqual returns ever decreases, across the steps and the
\* constituents, so that the vector counts the violations of every
\* constituent and not only those of the last one.
C8_AccumulateOnly == [][\A s \in Slots : gqerrors'[s] >= gqerrors[s]]_vars

\* _gqual_ is in its time loop or at its end: the checks made before the
\* loop have left their counts in errs
PastChecks == pc \in {"advect", "decay", "advqal", "adecay", "totals", "return"}

Setting(key) == Trunc(ui[key])

Count(cond) == IF cond THEN 1 ELSE 0

\* C9 as claimed: a run of a constituent counts once in slot 1 photolysis
\* with AUX1FG off, once in slot 2 volatilization in a free-flowing reach
\* with the velocity auxiliary off, once in slot 3 volatilization in a lake
\* with AUX1FG off, whatever the other settings, and nothing otherwise.
C9_Original ==
    PastChecks
        => /\ errs[1] = Count(loc.qalfg[3] = 1 /\ Setting("AUX1FG") = 0)
           /\ errs[2] = Count(loc.qalfg[4] = 1 /\ Setting("LKFG") = 0
                               /\ Setting("AUX2FG") = 0)
           /\ errs[3] = Count(loc.qalfg[4] = 1 /\ Setting("LKFG") = 1
                               /\ Setting("AUX1FG") = 0)

\* C9 as amended: the same counts where the section hydr is active
\* (HYDRFG = 1); where it is not, slots 1 .. 3 stay at zero.
C9_ConfigChecks ==
    PastChecks
        => /\ errs[1] = Count(Setting("HYDRFG") = 1 /\ loc.qalfg[3] = 1
                               /\ Setting("AUX1FG") = 0)
           /\ errs[2] = Count(Setting("HYDRFG") = 1 /\ loc.qalfg[4] = 1
                               /\ Setting("LKFG") = 0 /\ Setting("AUX2FG") = 0)
           /\ errs[3] = Count(Setting("HYDRFG") = 1 /\ loc.qalfg[4] = 1
                               /\ Setting("LKFG") = 1 /\ Setting("AUX1FG") = 0)

\* photolysis and volatilization in a lake with AUX1FG off, at the end of
\* the run of the constituent
C9_Witness ==
    /\ pc = "return"
    /\ Setting("HYDRFG") = 1 /\ Setting("AUX1FG") = 0 /\ Setting("LKFG") = 1
    /\ loc.qalfg[3] = 1 /\ loc.qalfg[4] = 1
    /\ errs[1] = 1 /\ errs[2] = 0 /\ errs[3] = 1

\* the constituent is associated with sediment, the section sedtrn is not
\* active and ts holds no sediment series
SedimentOff ==
    /\ Has(ui, "QALFG7") /\ Setting("QALFG7") = 1
    /\ Setting("SEDFG") = 0
    /\ SedimentSeries(Setting("NEXITS")) \cap DOMAIN inp.ts = {}

\* C10: for a constituent associated with sediment where the section sedtrn
\* is not active and no sediment series were produced, the run counts once
\* in slot 0 and goes through every step, no exception leaving the engine.
C10_SedimentOff ==
    SedimentOff
        => /\ pc # "raised"
           /\ PastChecks => errs[0] = 1
           /\ pc = "done" => gqerrors[0] = 1 /\ loop = loc.simlen

\* the source flags of the run that are 1
SourcesAsked == {i \in 1 .. 6 : Setting(SourceFlags[i]) = 1}

\* C11: where a source flag is 1, _gqual_ reads the input series itself if
\* ts has it and leaves the counter of the source alone, and reads zeros of
\* the length of the run and counts once if ts has not; the run is not
\* stopped either way, and the counters stay as they are through the steps
C11_Substitutes ==
    /\ PastChecks =>
           \A i \in SourcesAsked :
              IF Has(inp.ts, SourceSeries[i])
              THEN /\ ts[GqSeries[i]] = inp.ts[SourceSeries[i]]
                   /\ errs[SourceSlot(i)] = 0
              ELSE /\ ts[GqSeries[i]] = zeros(loc.simlen)
                   /\ errs[SourceSlot(i)] = 1
    /\ (inp \in SeriesRuns) => pc # "raised"
    /\ (inp \in SeriesRuns /\ pc \in {"return", "done"}) => loop = loc.simlen

\* a run through all its steps with one source missing and another present
C11_Witness ==
    /\ pc = "return"
    /\ loop = loc.simlen
    /\ loop >= 2
    /\ SourcesAsked = 1 .. 6
    /\ DOMAIN inp.ts \cap {SourceSeries[i] : i \in 1 .. 6} = {"ROC"}
    /\ loc.qalfg[2] = 1
    /\ errs[6] = 1 /\ errs[8] = 0
    /\ ts["ROC_GQ"] = full(loop, One)
    /\ ts["TW_GQ"] = zeros(loop)

\* what the message of a slot describes, on the tables of the constituent
\* and, for the two messages of advqal, on the sediment of the step
Described(s) ==
    CASE s = 0 -> Setting("QALFG7") = 1 /\ Setting("SEDFG") = 0
      [] s = 1 -> Setting("QALFG3") = 1 /\ Setting("AUX1FG") = 0
      [] s = 2 -> Setting("QALFG4") = 1 /\ Setting("LKFG") = 0 /\ Setting("AUX2FG") = 0
      [] s = 3 -> Setting("QALFG4") = 1 /\ Setting("LKFG") # 0 /\ Setting("AUX1FG") = 0
      [] s = 4 -> \E j \in 1 .. 3 :
                     /\ RGe(w.depscr[j], Zero)
                     /\ RLe(RAdd(RAdd(w.rsed[j], w.depscr[j]), w.rosed[j]), Zero)
      [] s = 5 -> \E j \in 1 .. 3 : RGe(w.depscr[j], Zero) /\ RLe(w.rsed[j + 3], Zero)
      [] OTHER -> /\ Setting(SourceFlags[s - 5]) = 1
                  /\ ~Has(inp.ts, SourceSeries[s - 5])

\* a step of the run counts only what the message of the slot describes:
\* the checks before the time loop start from zeros, advqal adds to slots
\* 4 and 5, and no other step changes a counter of _gqual_
CountsAsDescribed ==
    \A s \in Slots :
       /\ (pc = "pgqual" /\ errs'[s] > 0) => (s \notin {4, 5} /\ Described(s))
       /\ (pc = "advqal" /\ errs'[s] # errs[s]) =>
              (s \in {4, 5} /\ errs'[s] > errs[s] /\ Described(s))
       /\ (pc \notin {"pgqual", "advqal"}) => errs'[s] = errs[s]

Series(n) == ts[Name(loc.index) \o "_" \o n]

\* the sediment of class j in step t, in the units of the storages
RsedAt(j, t) ==
    IF loc.qalfg[7] = 1
    THEN RDiv(ts["RSED" \o ToString(j)][t], SedCf(loc.uunits)) ELSE Zero

\* the sediment of suspended class j the initial storages are made of
Rsed0(j) ==
    IF Has(ui, "SSED1") THEN ui["SSED" \o ToString(j)]
    ELSE ts["RSED" \o ToString(j)][0]

\* the step is about to advect the dissolved material
AtAdvect == pc = "advect"

\* the step has not yet advected the material on sediment
BeforeAdvqal == pc \in {"advect", "decay", "advqal"}

\* C22: a step starts from the state the step before it ended in: from the
\* second step on the start volume handed to advect is the volume of the
\* step before, the starting dqal is the dqal recorded for the step before,
\* and the prior suspended and bed masses handed to advqal are the products
\* sqal * rsed of the end of the step before; the first step starts from
\* the configured initial values
C22_CarriedState ==
    /\ (AtAdvect /\ loop >= 1)
          => /\ loc.svol = RMul(ts["VOL"][loop - 1], AFACT(loc.uunits))
             /\ loc.dqal = Series("DQAL")[loop - 1]
    /\ (BeforeAdvqal /\ loop >= 1 /\ loc.qalfg[7] = 1)
          => \A j \in 1 .. 6 :
                loc.rsqal[IF j <= 3 THEN j ELSE j + 1]
                    = RMul(Series("SQAL" \o ToString(j))[loop - 1], RsedAt(j, loop - 1))
    /\ (AtAdvect /\ loop = 0)
          => /\ loc.svol = ui["svol"]
             /\ loc.dqal = ui["DQAL"]
    /\ (BeforeAdvqal /\ loop = 0 /\ loc.qalfg[7] = 1)
          => /\ \A j \in 1 .. 3 :
                   loc.rsqal[j] = RMul(RMul(ui["SQAL" \o ToString(j)], Rsed0(j)), ui["svol"])
             /\ \A j \in 4 .. 6 :
                   loc.rsqal[j + 1] = RMul(ui["SQAL" \o ToString(j)], RsedAt(j, 0))

\* the second step of a constituent on sediment is about to call advqal
\* with masses, a volume and a concentration that the first step changed
C22_Witness ==
    /\ pc = "advqal" /\ loop = 1 /\ loc.qalfg[7] = 1
    /\ loc.svol # ui["svol"]
    /\ Series("DQAL")[0] # ui["DQAL"]
    /\ RGt(loc.rsqal[1], Zero) /\ RGt(loc.rsqal[5], Zero)
    /\ loc.rsqal[5] # RMul(ui["SQAL4"], RsedAt(4, 0))

\* the constituent is associated with sediment
OnSediment == loc.qalfg[7] = 1

\* the dissolved and the sorbed material of the reach, from the
\* concentrations dqal and sqal and the volume and sediment of the step
StepMass(dqal, sqal) ==
    RAdd(RMul(dqal, w.vol), RSum([j \in 1 .. 6 |-> RMul(sqal[j], w.rsed[j])], 1, 6))

\* the stage that follows each stage of a step
StageOrder ==
    /\ pc = "advect" => pc' \in {"decay", "raised"}
    /\ pc = "decay" => pc' = (IF OnSediment THEN "advqal" ELSE "totals")
    /\ pc = "advqal" => pc' = "adecay"
    /\ pc = "adecay" => pc' = "totals"
    /\ pc = "totals" => pc' \in {"advect", "return"}

\* what each stage works on and what it leaves alone
StageData ==
    /\ pc = "advect" => loc'.sqal = loc.sqal
    /\ (pc = "decay" /\ Deep(w.avdepe) /\ RGt(w.vol, Zero))
          => RMul(loc'.dqal, w.vol)
                 = RSub(RAdd(RMul(loc.dqal, w.vol), w'.pdqal), loc'.ddqal[7][index])
    /\ pc = "decay" => loc'.sqal = loc.sqal
    /\ pc = "advqal" => loc'.dqal = loc.dqal /\ loc'.ddqal = loc.ddqal
    /\ (pc = "adecay" /\ Deep(w.avdepe))
          => StepMass(loc'.dqal, loc'.sqal)
                 = RSub(StepMass(loc.dqal, loc.sqal), w'.sqdec[7])
    /\ pc = "adecay" => loc'.ddqal = loc.ddqal
    /\ pc = "totals" => loc'.dqal = loc.dqal /\ loc'.sqal = loc.sqal

\* C23: the stages of a step follow one another in a fixed order:
\* advection of the dissolved material, its decay with the input from
\* parents, advection of the material on sand, silt and clay, decay on the
\* suspended and on the bed sediment, the sorption exchange, the totals;
\* the decay takes its loss from the concentration advection left and the
\* exchange redistributes what the decay on sediment left
C23_StageOrder == [][StageOrder /\ StageData]_vars

\* a deep step of a constituent on sediment that lost dissolved and sorbed
\* material to decay and exchanged material with the sediment
C23_Witness ==
    /\ pc = "totals" /\ OnSediment /\ Deep(w.avdepe)
    /\ RGt(loc.ddqal[7][index], Zero)
    /\ RGt(w.sqdec[7], Zero)
    /\ w.adqal[7] # Zero
    /\ loc.dqal # Series("DQAL")[loop]

\* the names of the output series of constituent i in a reach of n exits
OutKeys(i, n) ==
    {Name(i) \o "_" \o k : k \in OutNames}
    \cup (IF n > 1
          THEN {Name(i) \o "_" \o k :
                   k \in Range("ODQAL", n) \cup Range("OSQAL1", n) \cup Range("OSQAL2", n)
                         \cup Range("OSQAL3", n) \cup Range("TOSQAL", n)}
          ELSE {})

Exits == inp.uci.advectData.nexits

\* the output series of the constituents, all of them, in ts
OutputsOf(i) == OutKeys(i, Exits) \cap DOMAIN ts

\* the run is in the time loop of a constituent
InStep == pc \in {"advect", "decay", "advqal", "adecay", "totals"}

\* every output series in ts has one element for each step of the run
OutputLength ==
    \A i \in 1 .. MaxGqual + 1 : \A k \in OutputsOf(i) :
        DOMAIN ts[k] = Steps(inp.siminfo.steps)

\* a step changes no element of an output series but its own
OwnElement ==
    InStep => \A k \in OutputsOf(index) : \A t \in DOMAIN ts[k] \ {loop} :
                  ts'[k][t] = ts[k][t]

\* the series _gqual_ makes or changes are those of its constituent
OwnSeries ==
    (pc \in {"advect", "decay", "advqal", "adecay", "totals", "return"})
        => \A k \in DOMAIN ts' :
              (k \notin DOMAIN ts \/ ts'[k] # ts[k]) => k \in OutKeys(index, Exits)

\* the output series of the other constituents stay as they are
OthersKept ==
    \A i \in (1 .. MaxGqual + 1) \ {index} : \A k \in OutputsOf(i) :
        k \in DOMAIN ts' /\ ts'[k] = ts[k]

\* C24: every output series of constituent i is under the prefix GQUALi_
\* and has simlen elements; step n writes element n of the series and
\* leaves every other element, the earlier ones among them, as it was; the
\* processing of a constituent leaves the output series of every other
\* constituent as they were
C24_OutputFrame == []OutputLength /\ [][OwnElement /\ OwnSeries /\ OthersKept]_vars

\* the second step of the second constituent of a reach of two exits,
\* with the series of the first constituent and of the first step written
C24_Witness ==
    /\ pc = "advect" /\ loop = 1 /\ index = 2 /\ Exits = 2
    /\ RGt(ts[Name(1) \o "_DQAL"][1], Zero)
    /\ RGt(ts[Name(1) \o "_ODQAL2"][1], Zero)
    /\ RGt(ts[Name(2) \o "_DQAL"][0], Zero)
    /\ ts[Name(2) \o "_DQAL"][1] = Zero

\* the step under way has advected the dissolved material and its average
\* depth in feet is at or below the threshold
ShallowNow ==
    /\ pc \in {"decay", "advqal", "adecay", "totals"}
    /\ RLe(AvdepFeet(loc, loop), Q(17, 100))

\* the coefficients a shallow step goes on with
ShallowFactors ==
    ShallowNow
        => /\ w.korea = Zero
           /\ \A l \in DOMAIN w.fact2 : w.fact2[l] = Zero
           /\ pc # "decay" => w.pdqal = Zero

\* after advection a shallow step leaves the dissolved concentration alone
\* and records it
ShallowFrame ==
    ShallowNow
        => /\ loc'.dqal = loc.dqal
           /\ pc = "totals" => /\ Series("DQAL")'[loop] = loc.dqal
                               /\ Series("PDQAL")'[loop] = Zero

\* C25: in a step whose depth is at or below the threshold the dissolved
\* concentration recorded is the one advection returned, with no decay, no
\* input from parents and no sorption exchange applied, PDQAL is zero, and
\* the reaeration coefficient and all the light factors of photolysis are
\* zero
C25_ShallowFrame == []ShallowFactors /\ [][ShallowFrame]_vars

\* a shallow step of a constituent with material in solution that decays
\* by photolysis and volatilization in deeper water
C25_Witness ==
    /\ pc = "totals" /\ ShallowNow
    /\ loc.qalfg[3] = 1 /\ loc.qalfg[4] = 1
    /\ RGt(loc.dqal, Zero)

\* the sorbed material that left by exit x in step t, on the three classes
OsqalSum(t, x) ==
    RAdd(RAdd(loc.OSQAL1[t][x], loc.OSQAL2[t][x]), loc.OSQAL3[t][x])

\* C27: for a constituent associated with sediment in a reach of more than
\* one exit, in every step and for every exit n of 1 .. nexits, the first
\* one included, TOSQAL of exit n is the sum of OSQAL1, OSQAL2 and OSQAL3
\* of exit n
C27_ExitTotals ==
    (BetweenSteps /\ OnSediment /\ loc.nexits > 1)
        => \A t \in 0 .. (loop - 1) : \A x \in 1 .. loc.nexits :
              loc.TOSQAL[t][x] = OsqalSum(t, x)

\* the deposition series the tables of the run and the table of
\* constituent i alone call for: those gqual makes for i from the series
\* the run was given
OwnDeposition(i) ==
    Deposition(inp.siminfo, inp.uci, inp.ts, "", i, inp.uci[Name(i)]).ts

\* C28: the constituents are isolated from each other's configuration: the
\* deposition series GQADFX and GQADCN _gqual_ is given for constituent i
\* are determined by the tables of the run and the table of i alone,
\* whatever the tables of the constituents before it, and the flux series
\* is rescaled once for the constituent
C28_Isolated ==
    pc = "pgqual"
        => /\ ts["GQADFX"] = OwnDeposition(index)["GQADFX"]
           /\ ts["GQADCN"] = OwnDeposition(index)["GQADCN"]

\* the SAVE entries of the exits of constituent i
ExitFlags(i) ==
    {Name(i) \o "_" \o k :
        k \in Range("ODQAL", Exits) \cup Range("OSQAL1", Exits) \cup Range("OSQAL2", Exits)
              \cup Range("OSQAL3", Exits) \cup Range("TOSQAL", Exits)}

\* gqual has gone through the body of its loop for the constituents
\* before index
PastConstituent == pc \in {"constituent", "done"}

\* the SAVE table has the entries of the exits of every constituent done
SaveExpanded ==
    (PastConstituent /\ Exits > 1)
        => \A i \in 1 .. (index - 1) : ExitFlags(i) \subseteq DOMAIN save

\* the expansion of the SAVE table after _gqual_ raises no exception
ExpansionCompletes == pc = "return" => pc' # "raised"

\* C29: with more than one exit and any number of constituents gqual
\* completes the expansion of the SAVE flags for every constituent: after
\* constituent i the SAVE table holds GQUALi_ODQALn, GQUALi_OSQAL1n,
\* GQUALi_OSQAL2n, GQUALi_OSQAL3n and GQUALi_TOSQALn for every exit n, and
\* no exception is raised at the second or a later constituent
C29_SaveExpansion == []SaveExpanded /\ [][ExpansionCompletes]_vars

\* the place of class j of sqal among the storages rsqal
Storage(j) == IF j <= 3 THEN j ELSE j + 1

\* the classes of sediment whose concentration is defined
Defined(sqal) == {j \in 1 .. 6 : sqal[j] # Undefined}

\* the material on the classes js of sediment that hold a defined
\* concentration
DefinedMass(js) ==
    RSum([j \in 1 .. 6 |->
             IF j \in js \cap Defined(loc.sqal) THEN RMul(loc.sqal[j], w.rsed[j]) ELSE Zero],
         1, 6)

\* at the end of a step a class with the undefined concentration has no
\* sediment, no decay, no exchange and no material, and the totals are
\* those of the other classes
UndefinedWeightless ==
    (pc = "totals" /\ OnSediment)
        => /\ \A j \in (1 .. 6) \ Defined(loc.sqal) :
                 /\ w.rsed[j] = Zero
                 /\ w.sqdec[j] = Zero
                 /\ w.adqal[j] = Zero
                 /\ loc.rsqal[Storage(j)] = Zero
           /\ loc.rsqal[4] = DefinedMass(1 .. 3)
           /\ loc.rsqal[8] = DefinedMass(4 .. 6)
           /\ loc.rsqal[12] = DefinedMass(1 .. 6)

\* decay and exchange pass over a class advqal left undefined
UndefinedSkipped ==
    (pc = "adecay")
        => \A j \in (1 .. 6) \ Defined(loc.sqal) :
              /\ loc'.sqal[j] = Undefined
              /\ w'.sqdec[j] = Zero
              /\ w'.adqal[j] = Zero

\* C30: the undefined value never enters the totals of material: at the
\* end of every step of a constituent associated with sediment, a class
\* whose concentration is the undefined value has no sediment in the step,
\* was passed over by adecay and adsdes, and adds nothing to its storage
\* rsqal nor to the totals RSQAL4, RSQAL8, RSQAL12 and RRQAL
C30_UndefinedWeightless == []UndefinedWeightless /\ [][UndefinedSkipped]_vars

\* the end of a deep step in a reach without suspended clay, where the
\* material on the other classes decayed and was exchanged
C30_Witness ==
    /\ pc = "totals" /\ OnSediment /\ Deep(w.avdepe)
    /\ loc.sqal[3] = Undefined
    /\ RGt(loc.addcpm[1], Zero)
    /\ RGt(w.sqdec[1], Zero)
    /\ w.adqal[7] # Zero
    /\ RGt(loc.rsqal[12], Zero)

(***************************************************************************)
(* Properties of adecay                                                    *)
(***************************************************************************)
AdecayDone == fpc = "out" /\ fname = "adecay"

\* the classes adecay decays: the rate constant is positive and the
\* concentration is above the noise floor
Decayed == {j \in 1 .. 3 : RGt(fin.addcpm1, Zero) /\ RGt(fin.sqal[j], Zero)}

\* C21: adecay returns every class it does not decay (a rate constant at
\* or below zero, or a concentration at or below the noise floor, the
\* undefined value included) as it was with a decayed mass of zero; for
\* every other class the decayed mass is the drop of the concentration
\* times the sediment of the class and the new concentration lies between
\* zero and the old one
C21_DecayedOnly ==
    AdecayDone =>
        /\ \A j \in (1 .. 3) \ Decayed :
              fout.sqal[j] = fin.sqal[j] /\ fout.sqdec[j] = Zero
        /\ \A j \in Decayed :
              /\ fout.sqdec[j] = RMul(RSub(fin.sqal[j], fout.sqal[j]), fin.rsed[j])
              /\ RGe(fout.sqal[j], Zero)
              /\ RLe(fout.sqal[j], fin.sqal[j])

\* a call that decayed one class and passed over an undefined one
C21_Witness ==
    /\ AdecayDone
    /\ RGt(fin.addcpm1, Zero)
    /\ fin.sqal[1] = Undefined /\ fout.sqal[1] = Undefined /\ fout.sqdec[1] = Zero
    /\ 3 \in Decayed
    /\ RGt(fout.sqdec[3], Zero)
    /\ RLt(fout.sqal[3], fin.sqal[3]) /\ RGt(fout.sqal[3], Zero)

(***************************************************************************)
(* Properties of adsdes                                                    *)
(***************************************************************************)
AdsdesDone == fpc = "out" /\ fname = "adsdes"

PresentClasses == {j \in 1 .. 6 : RGt(fin.rsed[j], Zero)}

\* the mass on the present site classes at the concentrations sqal
SorbedMass(sqal) ==
    RSum([j \in 1 .. 6 |->
            IF j \in PresentClasses THEN RMul(sqal[j], fin.rsed[j]) ELSE Zero], 1, 6)

\* C14: in a reach with water adsdes conserves the mass in solution and on
\* the present site classes; the flux to each class is the change of its
\* concentration times its sediment, and the total flux is the sum of the
\* six and the mass that left the solution
C14_MassConserved ==
    (AdsdesDone /\ RGt(fin.vol, Zero)) =>
        /\ RAdd(RMul(fin.vol, fout.dqal), SorbedMass(fout.sqal))
              = RAdd(RMul(fin.vol, fin.dqal), SorbedMass(fin.sqal))
        /\ \A j \in 1 .. 6 :
              fout.adqal[j] = RMul(RSub(fout.sqal[j], fin.sqal[j]), fin.rsed[j])
        /\ fout.adqal[7] = RSum(fout.adqal, 1, 6)
        /\ fout.adqal[7] = RMul(fin.vol, RSub(fin.dqal, fout.dqal))

\* material has moved from the solution to some classes and from others to
\* the solution, with one class absent
C14_Witness ==
    /\ AdsdesDone
    /\ RGt(fin.vol, Zero)
    /\ PresentClasses # {} /\ PresentClasses # 1 .. 6
    /\ \E j \in PresentClasses : RGt(fout.adqal[j], Zero)
    /\ \E j \in PresentClasses : RLt(fout.adqal[j], Zero)
    /\ fout.adqal[7] # Zero
    /\ fout.dqal # fin.dqal

\* C15: adsdes returns the concentration of every absent class as it was
\* with a flux of zero, and in a reach without water it returns the
\* dissolved and the six sorbed concentrations as they were with every
\* flux zero
C15_AbsentUntouched ==
    AdsdesDone =>
        /\ \A j \in (1 .. 6) \ PresentClasses :
              fout.sqal[j] = fin.sqal[j] /\ fout.adqal[j] = Zero
        /\ RLe(fin.vol, Zero) =>
              /\ fout.dqal = fin.dqal
              /\ fout.sqal = fin.sqal
              /\ \A j \in 1 .. 7 : fout.adqal[j] = Zero

\* an exchange in water that passed over an absent class holding material
C15_Witness ==
    /\ AdsdesDone
    /\ RGt(fin.vol, Zero)
    /\ fout.dqal # fin.dqal
    /\ \E j \in (1 .. 6) \ PresentClasses : fin.sqal[j] # Zero /\ RLt(fin.rsed[j], Zero)
    /\ \E j \in PresentClasses : fout.sqal[j] # fin.sqal[j]

(***************************************************************************)
(* Properties of the unit systems                                          *)
(***************************************************************************)
UnitsDone == fpc = "out" /\ fname = "units"

\* a and b agree to one part in 100000
Near(a, b) ==
    \/ a = b
    \/ b.n # 0 /\ RLe(RAbs(RSub(One, RDiv(a, b))), Q(1, 100000))

\* C16: a step of the same reach under the English and the metric unit
\* system takes the same decision on the depth of 0.17 feet, and works with
\* the same depth in metres
C16_UnitsAgree ==
    UnitsDone =>
        /\ fout[1].deep = fout[2].deep
        /\ Near(fout[1].avdepm, fout[2].avdepm)

(***************************************************************************)
(* Properties of light_factor                                              *)
(***************************************************************************)
LightDone == fpc = "out" /\ fname = "light_factor"

\* the tabulated set nearest to the one the latitude gives
NearestBand(lat) ==
    LET light == (Abs(lat) + 5) \div 10
    IN  IF light < 1 THEN 1 ELSE IF light > 5 THEN 5 ELSE light

\* C12: for every latitude the light factor is the tabulated value of the
\* nearest set of light data, set 1 below the first and set 5 above the last
C12_NearestBand ==
    LightDone =>
        fout.value = Q(LightTable[NearestBand(fin.lat)][fin.lset][fin.l], 10000000)

(***************************************************************************)
(* Properties of advqal                                                    *)
(***************************************************************************)
AdvqalDone == fpc = "out" /\ fname = "advqal"

\* C6: in advqal, when the flux is scour (depscr < 0) and the bed mass is
\* <= 0, dsqal is minus the prior bed sorbed mass rbqals, the bed
\* concentration is the undefined value and no error counter changes.
C6_ScourCleanBed ==
    (AdvqalDone /\ RLt(fin.a.depscr, Zero) /\ RLe(fin.a.bsed, Zero))
        => /\ fout.dsqal = RNeg(fin.a.rbqals)
           /\ fout.bqal = Undefined
           /\ fout.errors = fin.a.errors

C6_Witness ==
    /\ AdvqalDone
    /\ fin.a.depscr = R(-5) /\ fin.a.bsed = R(0) /\ fin.a.rbqals = R(10)
    /\ fout.dsqal = R(-10)
    /\ fout.errors = fin.a.errors

\* the case of C7: deposition or no scour, and nothing in suspension
NoSuspended ==
    /\ AdvqalDone
    /\ RGe(fin.a.depscr, Zero)
    /\ RLe(RAdd(RAdd(fin.a.rsed, fin.a.depscr), fin.a.rosed), Zero)

MassesNonzero == fin.a.isqal # Zero \/ fin.a.rsqals # Zero

\* C7 as claimed: with depscr >= 0 and rsed + depscr + rosed <= 0 the
\* suspended concentration is undefined with rosqal = 0 and dsqal = 0; no
\* counter changes if isqal = 0 and rsqals = 0, and slot 4 alone is
\* incremented, once, if isqal or rsqals is nonzero.
C7_Original ==
    NoSuspended
        => /\ fout.sqal = Undefined /\ fout.rosqal = Zero /\ fout.dsqal = Zero
           /\ fout.errors = IF MassesNonzero THEN Bump(fin.a.errors, 4)
                            ELSE fin.a.errors

\* C7 as amended: the same results; slot 4 is incremented once exactly when
\* isqal or rsqals is nonzero; the only other counter that can change is
\* slot 5, incremented once by the bed check of the same call exactly when
\* bsed <= 0 and rbqals > 0.
C7_ZeroDenominator ==
    NoSuspended
        => /\ fout.sqal = Undefined /\ fout.rosqal = Zero /\ fout.dsqal = Zero
           /\ fout.errors[4] = fin.a.errors[4] + (IF MassesNonzero THEN 1 ELSE 0)
           /\ fout.errors[5] = fin.a.errors[5]
                + (IF RLe(fin.a.bsed, Zero) /\ RGt(fin.a.rbqals, Zero) THEN 1 ELSE 0)
           /\ \A s \in Slots \ {4, 5} : fout.errors[s] = fin.a.errors[s]

C7_Witness ==
    /\ NoSuspended
    /\ fin.a.isqal # Zero
    /\ fin.a.rsqals = Zero
    /\ fout.errors[4] = fin.a.errors[4] + 1
    /\ fout.sqal = Undefined

\* the share of the outflow of sorbed material that leaves by exit i
Share(i) ==
    IF RGt(fin.a.rosed, Zero)
    THEN RDiv(RMul(fout.rosqal, fin.osed[i]), fin.a.rosed)
    ELSE Zero

\* the sediment that leaves by the exits makes up the outflow of sediment
ExitsMakeOutflow == RSum(fin.osed, 1, fin.nexits) = fin.a.rosed

\* C19 as claimed: for any number of exits osqal[i] is rosqal * osed[i] /
\* rosed where rosed > 0 and zero where it is not, so that the masses by
\* exit sum to rosqal whenever the sediment by exit sums to rosed.
C19_Original ==
    AdvqalDone =>
        /\ \A i \in 1 .. fin.nexits : fout.osqal[i] = Share(i)
        /\ ExitsMakeOutflow => RSum(fout.osqal, 1, fin.nexits) = fout.rosqal

\* C19 as amended: in a reach of two or more exits osqal[i] is rosqal *
\* osed[i] / rosed where rosed > 0 and zero where it is not, and the masses
\* by exit sum to rosqal whenever the sediment by exit sums to rosed; in a
\* reach of one exit osqal holds a single zero, whatever leaves the reach.
C19_ExitShares ==
    AdvqalDone =>
        /\ DOMAIN fout.osqal = 1 .. fin.nexits
        /\ fin.nexits > 1 =>
              /\ \A i \in 1 .. fin.nexits : fout.osqal[i] = Share(i)
              /\ ExitsMakeOutflow => RSum(fout.osqal, 1, fin.nexits) = fout.rosqal
        /\ fin.nexits = 1 => fout.osqal[1] = Zero

\* sorbed material leaves in equal parts by two exits that carry half of
\* the sediment each
C19_Witness ==
    /\ AdvqalDone
    /\ fin.nexits >= 2
    /\ RGt(fin.a.rosed, Zero)
    /\ RGt(fout.rosqal, Zero)
    /\ fin.osed[1] = Q(1, 2) /\ fin.osed[2] = Q(1, 2)
    /\ ExitsMakeOutflow
    /\ fout.osqal[1] = RDiv(fout.rosqal, R(2))
    /\ RSum(fout.osqal, 1, fin.nexits) = fout.rosqal

\* C20: with deposition or no scour and no sediment left on the bed the
\* bed concentration is undefined and slot 5 is incremented once exactly
\* when dsqal or rbqals is nonzero, of either sign; with sediment on the
\* bed slot 5 stays and the bed concentration is (dsqal + rbqals) / bsed.
C20_BedCounter ==
    (AdvqalDone /\ RGe(fin.a.depscr, Zero)) =>
        IF RLe(fin.a.bsed, Zero)
        THEN /\ fout.bqal = Undefined
             /\ fout.errors[5] = fin.a.errors[5]
                  + (IF fout.dsqal # Zero \/ fin.a.rbqals # Zero THEN 1 ELSE 0)
        ELSE /\ fout.errors[5] = fin.a.errors[5]
             /\ fout.bqal = RDiv(RAdd(fout.dsqal, fin.a.rbqals), fin.a.bsed)

\* the sorbed material of the class before the step: the inflow, what was
\* in suspension and what was on the bed
SorbedBefore == RAdd(RAdd(fin.a.isqal, fin.a.rsqals), fin.a.rbqals)

\* the sorbed material of the class after the step: what stays in
\* suspension, what left the reach and what is on the bed
SorbedAfter ==
    RAdd(RAdd(RMul(fout.sqal, fin.a.rsed), fout.rosqal),
         RAdd(fin.a.rbqals, fout.dsqal))

\* C26: advqal conserves the sorbed material of a class under scour and
\* under deposition: isqal + rsqals + rbqals is sqal * rsed + rosqal +
\* (rbqals + dsqal); the material scoured from the bed is not lost where
\* there is no sediment in suspension (rsed + rosed <= 0)
C26_SorbedConserved == AdvqalDone => SorbedBefore = SorbedAfter

(***************************************************************************)
(* Properties of ddecay                                                    *)
(***************************************************************************)
DdecayDone == fpc = "out" /\ fname = "ddecay"

\* C2: for every combination of the six decay flags with positive rate
\* constants and a dissolved concentration above the noise floor, the
\* decayed masses of processes 1..6 returned by ddecay sum to the total
\* decayed mass ddqal[7].
C2_ProrationSum ==
    (DdecayDone /\ AboveFloor(fin.dqal))
        => RSum(fout, 1, 6) = fout[7]

C2_Witness ==
    /\ DdecayDone
    /\ AboveFloor(fin.dqal)
    /\ RGt(fout[1], Zero) /\ RGt(fout[3], Zero) /\ RGt(fout[6], Zero)
    /\ RGt(fout[7], RAdd(RAdd(fout[1], fout[3]), fout[6]))

\* the processes of the call whose flag is 1
Enabled6 == {i \in 1 .. 6 : fin.qalfg[i] = 1}

\* the photolysis rate before the correction for the hour: the quantum
\* yield times the sum over the wavelength bands, adjusted for temperature
BaseRate3 ==
    IF fin.qalfg[3] = 1
    THEN RMul(RMul(RMul(fin.p.fact1, fin.p.phi),
                   RMul(R(NBands), RMul(fin.p.fact2, fin.p.photpm))),
              RPow(fin.p.thphot, fin.tw20))
    ELSE Zero

Daylight == 5 <= fin.hr /\ fin.hr < 17

\* the photolysis rate the interval and the hour of the call give
Rate3 ==
    IF RLt(fin.delt60, R(24))
    THEN (IF Daylight THEN RMul(R(2), BaseRate3) ELSE Zero)
    ELSE BaseRate3

\* the loss the first-order rate k takes from the solution in the interval
Loss(k) == RMul(RMul(fin.dqal, RSub(One, ExpNeg(k))), fin.volsp)

\* C17: ddecay returns eight zeros for a dissolved concentration at or
\* below the noise floor; above it, the loss to every process whose flag is
\* not 1 is zero, and with no process at work (none enabled, or photolysis
\* alone in the dark) the seven losses are zero
C17_Unsimulated ==
    DdecayDone =>
        /\ DOMAIN fout = 0 .. 7
        /\ ~AboveFloor(fin.dqal) => \A i \in 0 .. 7 : fout[i] = Zero
        /\ \A i \in (1 .. 6) \ Enabled6 : fout[i] = Zero
        /\ (Enabled6 = {} \/ (Enabled6 = {3} /\ Rate3 = Zero)) =>
              \A i \in 1 .. 7 : fout[i] = Zero

\* a call with the solution above the floor, hydrolysis at flag 2 and the
\* five other processes decaying
C17_Witness ==
    /\ DdecayDone
    /\ AboveFloor(fin.dqal)
    /\ fin.qalfg[1] = 2
    /\ Enabled6 = 2 .. 6
    /\ fout[1] = Zero
    /\ \A i \in 2 .. 7 : RGt(fout[i], Zero)

\* C18: in an interval shorter than 24 hours photolysis runs at twice its
\* rate in the hours 5 .. 16 and not at all in the others; in an interval
\* of 24 hours or more it runs at its rate whatever the hour
C18_Diurnal ==
    (DdecayDone /\ AboveFloor(fin.dqal) /\ fin.qalfg[3] = 1) =>
        /\ (Rate3 = Zero) => fout[3] = Zero
        /\ (Enabled6 = {3}) =>
              /\ fout[7] = Loss(Rate3)
              /\ fout[3] = fout[7]
        /\ (RLt(fin.delt60, R(24)) /\ ~Daylight) => fout[3] = Zero
        /\ (RGe(fin.delt60, R(24)) \/ Daylight) => RGt(fout[3], Zero)

\* photolysis alone at twice its rate, in the last daylight hour of an
\* hourly run
C18_Witness ==
    /\ DdecayDone
    /\ AboveFloor(fin.dqal)
    /\ Enabled6 = {3}
    /\ fin.delt60 = One
    /\ fin.hr = 16
    /\ fout[3] = Loss(RMul(R(2), BaseRate3))
    /\ fout[3] # Loss(BaseRate3)
    /\ RGt(fout[3], Zero)

====
